---- MODULE Spec2Model ----
(***************************************************************************)
(* Model of OmniRoboGym's batched joint impedance controller               *)
(* (omni_robo_gym/utils/jnt_imp_cntrl.py, class OmniJntImpCntrl) and of    *)
(* the articulation view it commands.                                      *)
(*                                                                         *)
(* Tensors are records [none, shape, dtype, dev, data]: data is the flat   *)
(* row-major content, indices are 0-based as in the source (TLA+ sequence  *)
(* positions are 1-based).  A buffer is a function over Cells, the         *)
(* [num_robots, n_dofs] grid.  A Python exception is the field exc of an   *)
(* outcome: the writes made before the raise stay in the object.           *)
(***************************************************************************)
EXTENDS Integers, Sequences, FiniteSets, TLC

\* ---------------------------------------------------------------- bounds
\* articulation.count and articulation.num_dof of the modelled articulation
NumRobots == 2
NDofs == 3
\* number of controller calls made after construction, in Spec, in SeqSpec
\* and in RefSpec
MaxOps == 2
MaxSeqOps == 4
MaxRefOps == 3
\* number of joint elements in the homing document
MaxDoc == 2
\* calls made on a filter of its own
MaxFltOps == 3
\* robots per environment (the length of robot_names) and environments
MaxKinds == 4
NumEnvs == 2
\* calls made on the task's state synchronizer, world steps included
MaxTaskOps == 3
\* snapshots of the world beside the first
MaxSnapshots == 2
\* the largest integration dt; positions are multiples of PosUnit, which
\* keeps the differentiated velocities exact in integers
MaxDt == 2
\* the value of self._kh2 = gain * dt / 2 the modelled filter_BW and filter_dt
\* give, as the fraction Kh2Num / Kh2Den
Kh2Num == 1
Kh2Den == 3

\* ------------------------------------------------------ program constants
DefaultPGain == 300
DefaultVGain == 30

Device == "cpu"
OtherDevice == "cuda"

Robots == 0 .. (NumRobots - 1)
Joints == 0 .. (NDofs - 1)
Cells == Robots \X Joints
FullShape == <<NumRobots, NDofs>>

RECURSIVE Pow(_, _)
Pow(b, n) == IF n = 0 THEN 1 ELSE b * Pow(b, n - 1)

\* coefficients of FirstOrderFilter as fractions over CoeffDen
CoeffDen == Kh2Den + Kh2Num
coeff_ref == Kh2Num
coeff_km1 == Kh2Den - Kh2Num
\* references and measurements are multiples of Unit, which keeps MaxSeqOps
\* (and MaxOps) successive filter updates exact in integers
Unit == Pow(CoeffDen, IF MaxSeqOps > MaxOps THEN MaxSeqOps ELSE MaxOps)

\* ---------------------------------------------------------------- tensors
None == [none |-> TRUE, shape |-> <<>>, dtype |-> "", dev |-> "", data |-> <<>>]

Tensor(shape, dtype, dev, data) ==
    [none |-> FALSE, shape |-> shape, dtype |-> dtype, dev |-> dev, data |-> data]

\* a one-dimensional int64 index tensor on the controller's device
Idx(data) == Tensor(<<Len(data)>>, "int64", Device, data)

\* a [rows, cols] tensor holding base, base + step, ... in row-major order
Mat(rows, cols, base, step, dev) ==
    Tensor(<<rows, cols>>, "double", dev,
           [n \in 1 .. (rows * cols) |-> base + step * (n - 1)])

\* a one-dimensional tensor of n values
Vec(n, base, step) ==
    Tensor(<<n>>, "double", Device, [m \in 1 .. n |-> base + step * (m - 1)])

numel(t) == Len(t.data)

SeqMin(s) == CHOOSE x \in {s[n] : n \in DOMAIN s} : \A y \in {s[n] : n \in DOMAIN s} : x <= y
SeqMax(s) == CHOOSE x \in {s[n] : n \in DOMAIN s} : \A y \in {s[n] : n \in DOMAIN s} : x >= y

Full(v) == [c \in Cells |-> v]
Zeros == Full(0)

\* torch.sub, torch.add, torch.mul on [num_robots, n_dofs] buffers
Sub(a, b) == [c \in Cells |-> a[c] - b[c]]
Add(a, b) == [c \in Cells |-> a[c] + b[c]]
Mul(a, b) == [c \in Cells |-> a[c] * b[c]]

\* ----------------------------------------------------- FirstOrderFilter
FirstOrderFilter == [yk |-> Zeros, ykm1 |-> Zeros, refk |-> Zeros, refkm1 |-> Zeros]

\* FirstOrderFilter.update(refk) with refk given
FilterUpdate(f, refk) ==
    LET yk == [c \in Cells |->
                 (coeff_km1 * f.ykm1[c] + coeff_ref * (refk[c] + f.refkm1[c])) \div CoeffDen]
    IN [yk |-> yk, ykm1 |-> yk, refk |-> refk, refkm1 |-> refk]

\* FirstOrderFilter.get()
FilterGet(f) == f.yk

\* FirstOrderFilter(dt, filter_BW) for kh2 = gain * dt / 2 = num / den: the four
\* buffers and the coefficients, as fractions over c_den = den + num
NewFilter(kh2) ==
    [yk |-> Zeros, ykm1 |-> Zeros, refk |-> Zeros, refkm1 |-> Zeros,
     c_ref |-> kh2.num, c_km1 |-> kh2.den - kh2.num, c_den |-> kh2.den + kh2.num]

\* update(refk) with refkm1 left as it was
UpdateStaleRefkm1(f, refk) ==
    LET r == IF refk.none THEN f.refk ELSE refk.data
        yk == [c \in Cells |->
                 (f.c_km1 * f.ykm1[c] + f.c_ref * (r[c] + f.refkm1[c])) \div f.c_den]
    IN [f EXCEPT !.refk = r, !.yk = yk, !.ykm1 = yk]

\* FirstOrderFilter.update(refk); refk = None keeps the stored reference
Update(f, refk) ==
    LET r == IF refk.none THEN f.refk ELSE refk.data
        yk == [c \in Cells |->
                 (f.c_km1 * f.ykm1[c] + f.c_ref * (r[c] + f.refkm1[c])) \div f.c_den]
    IN [f EXCEPT !.refk = r, !.yk = yk, !.refkm1 = r, !.ykm1 = yk]

\* FirstOrderFilter.reset()
FilterReset(f) ==
    [f EXCEPT !.yk = Zeros, !.ykm1 = Zeros, !.refk = Zeros, !.refkm1 = Zeros]

\* ------------------------------------------------- index-set validation
\* One branch of _validate_selectors: the IndxState of an index tensor, or
\* "RAISE" when torch.min / torch.max is evaluated on an empty tensor (in the
\* condition when the first three conjuncts hold, in the diagnostic print
\* otherwise).
IndxState(indxs, bound) ==
    IF indxs.none THEN "NONE"
    ELSE IF numel(indxs) = 0 THEN "RAISE"
    ELSE IF /\ Len(indxs.shape) = 1
            /\ indxs.dtype = "int64"
            /\ indxs.dev = Device
            /\ SeqMin(indxs.data) >= 0
            /\ SeqMax(indxs.data) < bound
         THEN "VALID"
         ELSE "INVALID"

\* _validate_selectors: check[0] for the robots, check[1] for the joints;
\* the robot branch runs first
ValidateSelectors(robot_indxs, jnt_indxs) ==
    LET c0 == IndxState(robot_indxs, NumRobots)
        c1 == IndxState(jnt_indxs, NDofs)
    IN IF c0 = "RAISE" \/ c1 = "RAISE"
       THEN [exc |-> "RuntimeError", check |-> <<c0, c1>>]
       ELSE [exc |-> "", check |-> <<c0, c1>>]

NoSelector == [none |-> TRUE, rows |-> <<>>, cols |-> <<>>]

\* torch.meshgrid(rows, cols, indexing="ij"): cell (i, k) of the selector
\* addresses buffer cell (rows[i], cols[k])
Meshgrid(rows, cols) == [none |-> FALSE, rows |-> rows, cols |-> cols]

AllRobots == [n \in 1 .. NumRobots |-> n - 1]
AllJoints == [n \in 1 .. NDofs |-> n - 1]

\* _gen_selector: the selector, or NoSelector (Python None), with the
\* indxs_check it rests on
GenSelector(robot_indxs, jnt_indxs) ==
    LET v == ValidateSelectors(robot_indxs, jnt_indxs)
        c == v.check
    IN IF v.exc # "" THEN [exc |-> v.exc, check |-> c, selector |-> NoSelector]
       ELSE [exc |-> "",
             check |-> c,
             selector |->
               IF c[1] = "VALID" /\ c[2] = "VALID"
               THEN Meshgrid(robot_indxs.data, jnt_indxs.data)
               ELSE IF c[1] = "VALID" /\ c[2] = "NONE"
               THEN Meshgrid(robot_indxs.data, AllJoints)
               ELSE IF c[1] = "NONE" /\ c[2] = "VALID"
               THEN Meshgrid(AllRobots, jnt_indxs.data)
               ELSE NoSelector]

SelShape(selector) == <<Len(selector.rows), Len(selector.cols)>>

\* _validate_signal: valid is the returned boolean; exc is the exception
\* raised by signal.shape on None and by signal_shape[0] / signal_shape[1]
\* on a tensor of fewer than two dimensions
ValidateSignal(signal, selector) ==
    IF signal.none THEN [exc |-> "AttributeError", valid |-> FALSE]
    ELSE IF Len(signal.shape) < 2 THEN [exc |-> "IndexError", valid |-> FALSE]
    ELSE LET expected == IF selector.none THEN FullShape ELSE SelShape(selector)
         IN [exc |-> "",
             valid |-> /\ signal.shape[1] = expected[1]
                       /\ signal.shape[2] = expected[2]
                       /\ signal.dev = Device]

\* ----------------------------------------------------------- assignment
\* torch broadcasting of a value of at most two dimensions to a 2-D target
Broadcastable(vshape, tshape) ==
    CASE Len(vshape) = 0 -> TRUE
      [] Len(vshape) = 1 -> vshape[1] \in {1, tshape[2]}
      [] Len(vshape) = 2 -> vshape[1] \in {1, tshape[1]} /\ vshape[2] \in {1, tshape[2]}
      [] OTHER -> FALSE

\* BAt reading the first element whatever the position
BAtFirst(v, i, k) == v.data[1]

\* the value a broadcast tensor has at row i, column k (0-based) of the target
BAt(v, i, k) ==
    CASE Len(v.shape) = 0 -> v.data[1]
      [] Len(v.shape) = 1 -> v.data[(IF v.shape[1] = 1 THEN 0 ELSE k) + 1]
      [] OTHER -> v.data[(IF v.shape[1] = 1 THEN 0 ELSE i) * v.shape[2]
                         + (IF v.shape[2] = 1 THEN 0 ELSE k) + 1]

\* buf[:, :] = signal
SliceAssign(buf, signal) ==
    IF Broadcastable(signal.shape, FullShape)
    THEN {[exc |-> "", buf |-> [c \in Cells |-> BAt(signal, c[1], c[2])]]}
    ELSE {[exc |-> "RuntimeError", buf |-> buf]}

\* the values buf[selector] = signal may leave in cell c: one per selector
\* position that addresses c
Cand(signal, selector, c) ==
    {BAt(signal, p[1] - 1, p[2] - 1) :
        p \in {q \in (1 .. Len(selector.rows)) \X (1 .. Len(selector.cols)) :
                 selector.rows[q[1]] = c[1] /\ selector.cols[q[2]] = c[2]}}

\* every way of giving each cell of S one of the values written to it
RECURSIVE Picks(_, _, _)
Picks(S, signal, selector) ==
    IF S = {} THEN {[c \in {} |-> 0]}
    ELSE LET c == CHOOSE x \in S : TRUE
         IN {f @@ (c :> x) : f \in Picks(S \ {c}, signal, selector),
                              x \in Cand(signal, selector, c)}

\* buf[selector] = signal (index_put_ without accumulate): a cell addressed
\* more than once receives any one of the values written to it
IndexAssign(buf, signal, selector) ==
    IF signal.dev # Device \/ ~Broadcastable(signal.shape, SelShape(selector))
    THEN {[exc |-> "RuntimeError", buf |-> buf]}
    ELSE LET targets == {c \in Cells : Cand(signal, selector, c) # {}}
         IN {[exc |-> "", buf |-> [c \in Cells |-> IF c \in targets THEN f[c] ELSE buf[c]]] :
                f \in Picks(targets, signal, selector)}

valid_signal_types == <<"pos_ref", "vel_ref", "eff_ref", "pos", "vel", "eff", "pgain", "vgain">>

\* the buffer a signal type is written to
BufferOf(signal_type) ==
    CASE signal_type = valid_signal_types[1] -> "pos_ref"
      [] signal_type = valid_signal_types[2] -> "vel_ref"
      [] signal_type = valid_signal_types[3] -> "eff_ref"
      [] signal_type = valid_signal_types[4] -> "pos"
      [] signal_type = valid_signal_types[5] -> "vel"
      [] signal_type = valid_signal_types[6] -> "eff"
      [] signal_type = valid_signal_types[7] -> "pos_gains"
      [] signal_type = valid_signal_types[8] -> "vel_gains"

\* _assign_signal writing through buf[:, :] whatever the selector
AssignSignalUnscoped(w, signal_type, signal, selector) ==
    LET b == BufferOf(signal_type)
    IN {[exc |-> o.exc, ok |-> o.exc = "", w |-> [w EXCEPT ![b] = o.buf]] :
           o \in SliceAssign(w[b], signal)}

\* _assign_signal on controller w: the set of outcomes [exc, ok, w]
AssignSignal(w, signal_type, signal, selector) ==
    IF signal_type \notin {valid_signal_types[n] : n \in DOMAIN valid_signal_types}
    THEN {[exc |-> "", ok |-> FALSE, w |-> w]}
    ELSE LET b == BufferOf(signal_type)
             outs == IF selector.none THEN SliceAssign(w[b], signal)
                     ELSE IndexAssign(w[b], signal, selector)
         IN {[exc |-> o.exc, ok |-> o.exc = "", w |-> [w EXCEPT ![b] = o.buf]] : o \in outs}

\* ------------------------------------------------------ articulation view
\* ArticulationView.set_gains(kps, kds): args holds the keywords supplied
ArtSetGains(w, args) ==
    [w EXCEPT !.calls = Append(@, [fn |-> "set_gains", args |-> args]),
              !.art_kps = IF "kps" \in DOMAIN args THEN args.kps ELSE @,
              !.art_kds = IF "kds" \in DOMAIN args THEN args.kds ELSE @]

\* set_joint_efforts, set_joint_position_targets, set_joint_velocity_targets
ArtCommand(w, fn, value) ==
    [w EXCEPT !.calls = Append(@, [fn |-> fn, args |-> [value |-> value]])]

\* torch.cuda.synchronize()
CudaSynchronize(w) ==
    [w EXCEPT !.calls = Append(@, [fn |-> "cuda_synchronize", args |-> [value |-> Zeros]])]

\* ------------------------------------------------------- OmniJntImpCntrl
\* _initialize_gains pushing the stored gains in override mode too
InitializeGainsStored(w) ==
    IF ~w.gains_initialized
    THEN [ArtSetGains(w, [kps |-> w.pos_gains, kds |-> w.vel_gains])
          EXCEPT !.gains_initialized = TRUE]
    ELSE w

\* _initialize_gains leaving gains_initialized as it was
InitializeGainsFlagless(w) ==
    IF ~w.gains_initialized
    THEN IF ~w.override_art_controller
         THEN ArtSetGains(w, [kps |-> w.pos_gains, kds |-> w.vel_gains])
         ELSE ArtSetGains(w, [kps |-> Zeros, kds |-> Zeros])
    ELSE w

\* _initialize_gains
InitializeGains(w) ==
    IF ~w.gains_initialized
    THEN [(IF ~w.override_art_controller
           THEN ArtSetGains(w, [kps |-> w.pos_gains, kds |-> w.vel_gains])
           ELSE ArtSetGains(w, [kps |-> Zeros, kds |-> Zeros]))
          EXCEPT !.gains_initialized = TRUE]
    ELSE w

\* _initialize_refs
InitializeRefs(w) ==
    IF ~w.refs_initialized
    THEN [(IF ~w.override_art_controller
           THEN ArtCommand(
                  ArtCommand(
                    ArtCommand(w, "set_joint_efforts", w.eff_ref),
                    "set_joint_position_targets", w.pos_ref),
                  "set_joint_velocity_targets", w.vel_ref)
           ELSE ArtCommand(w, "set_joint_efforts", w.eff_ref))
          EXCEPT !.refs_initialized = TRUE]
    ELSE w

\* reset() advancing the filters with a zero reference in place of
\* reallocating them
ResetOpFilterUpdate(w) ==
    LET w1 == [w EXCEPT !.gains_initialized = FALSE,
                        !.refs_initialized = FALSE,
                        !.pos_gains = Full(DefaultPGain),
                        !.vel_gains = Full(DefaultVGain),
                        !.eff_ref = Zeros, !.pos_ref = Zeros, !.vel_ref = Zeros,
                        !.pos_err = Zeros, !.vel_err = Zeros,
                        !.pos = Zeros, !.vel = Zeros, !.eff = Zeros,
                        !.imp_eff = Zeros]
        w2 == IF w.filter_available
              THEN [w1 EXCEPT !.pos_ref_filter = FilterUpdate(@, Zeros),
                              !.vel_ref_filter = FilterUpdate(@, Zeros),
                              !.eff_ref_filter = FilterUpdate(@, Zeros)]
              ELSE w1
    IN IF w.init_on_creation THEN InitializeRefs(InitializeGains(w2)) ELSE w2

\* reset()
ResetOp(w) ==
    LET w1 == [w EXCEPT !.gains_initialized = FALSE,
                        !.refs_initialized = FALSE,
                        !.pos_gains = Full(DefaultPGain),
                        !.vel_gains = Full(DefaultVGain),
                        !.eff_ref = Zeros,
                        !.pos_ref = Zeros,
                        !.vel_ref = Zeros,
                        !.pos_err = Zeros,
                        !.vel_err = Zeros,
                        !.pos = Zeros,
                        !.vel = Zeros,
                        !.eff = Zeros,
                        !.imp_eff = Zeros]
        w2 == IF w.filter_available
              THEN [w1 EXCEPT !.pos_ref_filter = FirstOrderFilter,
                              !.vel_ref_filter = FirstOrderFilter,
                              !.eff_ref_filter = FirstOrderFilter]
              ELSE w1
    IN IF w.init_on_creation THEN InitializeRefs(InitializeGains(w2)) ELSE w2

\* OmniJntImpCntrl.__init__ on an initialized articulation whose native
\* gains have not been set by the controller yet (NativeGains)
NativeGains == Full(-1)

Construct(override, on_creation, filter_given) ==
    ResetOp([override_art_controller |-> override,
             init_on_creation |-> on_creation,
             filter_available |-> filter_given,
             gains_initialized |-> FALSE,
             refs_initialized |-> FALSE,
             pos_gains |-> Zeros, vel_gains |-> Zeros,
             eff_ref |-> Zeros, pos_ref |-> Zeros, vel_ref |-> Zeros,
             pos_err |-> Zeros, vel_err |-> Zeros,
             pos |-> Zeros, vel |-> Zeros, eff |-> Zeros,
             imp_eff |-> Zeros,
             pos_ref_filter |-> FirstOrderFilter,
             vel_ref_filter |-> FirstOrderFilter,
             eff_ref_filter |-> FirstOrderFilter,
             art_kps |-> NativeGains, art_kds |-> NativeGains,
             calls |-> <<>>])

\* the gain push without the push of the velocity gains
PushGainsKpsOnly(w, kw) ==
    IF kw = "kps" /\ ~w.override_art_controller
    THEN ArtSetGains(w, [kps |-> w.pos_gains])
    ELSE w

\* the articulation push that follows a successful gain assignment
PushGains(w, kw) ==
    IF kw = "" \/ w.override_art_controller THEN w
    ELSE IF kw = "kps" THEN ArtSetGains(w, [kps |-> w.pos_gains])
    ELSE ArtSetGains(w, [kds |-> w.vel_gains])

\* One "if <signal> is not None:" block of update_state, set_gains and
\* set_refs on outcome o = [exc, success, w]: checked is the tensor handed to
\* _validate_signal, flag the (1-based) success entry of the field, kw the
\* keyword of the gain push ("" for none).  The last success entry is the
\* assign error.
FieldBlock(o, signal_type, signal, checked, selector, flag, kw) ==
    IF o.exc # "" \/ signal.none THEN {o}
    ELSE LET v == ValidateSignal(checked, selector)
         IN IF v.exc # "" THEN {[o EXCEPT !.exc = v.exc]}
            ELSE IF ~v.valid THEN {[o EXCEPT !.success[flag] = FALSE]}
            ELSE {IF a.exc # "" THEN [o EXCEPT !.exc = a.exc]
                  ELSE IF ~a.ok THEN [o EXCEPT !.success[Len(o.success)] = FALSE]
                  ELSE [o EXCEPT !.w = PushGains(a.w, kw)] :
                     a \in AssignSignal(o.w, signal_type, signal, selector)}

\* a call after its _gen_selector: n success flags, all true, and the
\* exception _gen_selector raised, if any
Entry(w, n, g) ==
    [exc |-> g.exc, success |-> [m \in 1 .. n |-> TRUE], w |-> w,
     check |-> g.check, selector |-> g.selector]

\* update_state(pos, vel, eff, robot_indxs, jnt_indxs)
UpdateStateOp(w, a) ==
    LET g == GenSelector(a.robot_indxs, a.jnt_indxs)
        s0 == {Entry(w, 4, g)}
        s1 == UNION {FieldBlock(o, "pos", a.pos, a.pos, g.selector, 1, "") : o \in s0}
        s2 == UNION {FieldBlock(o, "vel", a.vel, a.vel, g.selector, 2, "") : o \in s1}
        s3 == UNION {FieldBlock(o, "eff", a.eff, a.eff, g.selector, 3, "") : o \in s2}
    IN s3

\* set_gains assigning the gains without pushing them
SetGainsOpUnpushed(w, a) ==
    LET g == GenSelector(a.robot_indxs, a.jnt_indxs)
        s0 == {Entry(w, 3, g)}
        s1 == UNION {FieldBlock(o, "pgain", a.pos_gains, a.pos_gains, g.selector, 1, "") : o \in s0}
        s2 == UNION {FieldBlock(o, "vgain", a.vel_gains, a.pos_gains, g.selector, 2, "") : o \in s1}
    IN s2

\* set_gains(pos_gains, vel_gains, robot_indxs, jnt_indxs): vel_gains is
\* validated through the shape of pos_gains (line 725)
SetGainsOp(w, a) ==
    LET g == GenSelector(a.robot_indxs, a.jnt_indxs)
        s0 == {Entry(w, 3, g)}
        s1 == UNION {FieldBlock(o, "pgain", a.pos_gains, a.pos_gains, g.selector, 1, "kps") : o \in s0}
        s2 == UNION {FieldBlock(o, "vgain", a.vel_gains, a.pos_gains, g.selector, 2, "kds") : o \in s1}
    IN s2

\* set_refs pushing the position gains after it assigned pos_ref
SetRefsOpPushing(w, a) ==
    LET g == GenSelector(a.robot_indxs, a.jnt_indxs)
        s0 == {Entry(w, 4, g)}
        s1 == UNION {FieldBlock(o, "eff_ref", a.eff_ref, a.eff_ref, g.selector, 1, "") : o \in s0}
        s2 == UNION {FieldBlock(o, "pos_ref", a.pos_ref, a.pos_ref, g.selector, 2, "kps") : o \in s1}
        s3 == UNION {FieldBlock(o, "vel_ref", a.vel_ref, a.vel_ref, g.selector, 3, "") : o \in s2}
    IN s3

\* set_refs(eff_ref, pos_ref, vel_ref, robot_indxs, jnt_indxs)
SetRefsOp(w, a) ==
    LET g == GenSelector(a.robot_indxs, a.jnt_indxs)
        s0 == {Entry(w, 4, g)}
        s1 == UNION {FieldBlock(o, "eff_ref", a.eff_ref, a.eff_ref, g.selector, 1, "") : o \in s0}
        s2 == UNION {FieldBlock(o, "pos_ref", a.pos_ref, a.pos_ref, g.selector, 2, "") : o \in s1}
        s3 == UNION {FieldBlock(o, "vel_ref", a.vel_ref, a.vel_ref, g.selector, 3, "") : o \in s2}
    IN s3

\* the impedance law with the velocity feedback subtracted
ImpEffVelSign(eff_r, p_gains, p_err, v_gains, v_err) ==
    Add(eff_r, Sub(Mul(p_gains, p_err), Mul(v_gains, v_err)))

\* the impedance law of apply_cmds
ImpEff(eff_r, p_gains, p_err, v_gains, v_err) ==
    Add(eff_r, Add(Mul(p_gains, p_err), Mul(v_gains, v_err)))

\* apply_cmds(filter): [exc, w].  self.vel_ref_filter (lines 839 and 846) is
\* no attribute of the controller, so the filtered branch raises there.
ApplyCmdsOp(w, filter) ==
    LET w1 == IF ~w.gains_initialized THEN InitializeGains(w) ELSE w
        w2 == IF ~w1.refs_initialized THEN InitializeRefs(w1) ELSE w1
    IN IF filter /\ w2.filter_available
       THEN LET w3 == [w2 EXCEPT
                         !.pos_ref_filter = FilterUpdate(@, w2.pos_ref),
                         !.vel_ref_filter = FilterUpdate(@, w2.vel_ref),
                         !.eff_ref_filter = FilterUpdate(@, w2.eff_ref)]
            IN IF ~w3.override_art_controller
               THEN [exc |-> "AttributeError",
                     w |-> ArtCommand(w3, "set_joint_position_targets",
                                      FilterGet(w3.pos_ref_filter))]
               ELSE [exc |-> "AttributeError",
                     w |-> [w3 EXCEPT !.pos_err = Sub(FilterGet(w3.pos_ref_filter), w3.pos)]]
       ELSE IF ~w2.override_art_controller
            THEN [exc |-> "",
                  w |-> ArtCommand(
                          ArtCommand(
                            ArtCommand(w2, "set_joint_efforts", w2.eff_ref),
                            "set_joint_position_targets", w2.pos_ref),
                          "set_joint_velocity_targets", w2.vel_ref)]
            ELSE LET p_err == Sub(w2.pos_ref, w2.pos)
                     v_err == Sub(w2.vel_ref, w2.vel)
                     i_eff == ImpEff(w2.eff_ref, w2.pos_gains, p_err, w2.vel_gains, v_err)
                     w3 == [w2 EXCEPT !.pos_err = p_err, !.vel_err = v_err, !.imp_eff = i_eff]
                 IN [exc |-> "",
                     w |-> ArtCommand(CudaSynchronize(w3), "set_joint_efforts", i_eff)]

\* ---------------------------------------------------------- construction
\* name_pattern in jnt, strings being sequences of characters
Contains(pattern, name) ==
    \E i \in 0 .. (Len(name) - Len(pattern)) :
        SubSeq(name, i + 1, i + Len(pattern)) = pattern

\* an event of a constructor: an articulation attribute read, a tensor
\* allocated, a call made on the articulation
Ev(kind, name) == [kind |-> kind, name |-> name]

ReadsOfArticulation == <<Ev("read", "count"), Ev("read", "num_dof"), Ev("read", "dof_names")>>

\* the controller before its buffers exist: every buffer attribute is None
Unbuilt ==
    [override_art_controller |-> FALSE,
     init_on_creation |-> FALSE,
     filter_available |-> FALSE,
     gains_initialized |-> FALSE,
     refs_initialized |-> FALSE,
     pos_gains |-> None, vel_gains |-> None,
     eff_ref |-> None, pos_ref |-> None, vel_ref |-> None,
     pos_err |-> None, vel_err |-> None,
     pos |-> None, vel |-> None, eff |-> None,
     imp_eff |-> None,
     pos_ref_filter |-> None,
     vel_ref_filter |-> None,
     eff_ref_filter |-> None,
     art_kps |-> NativeGains, art_kds |-> NativeGains,
     calls |-> <<>>]

\* the calls reset() makes on the articulation, as constructor events
CallEvents(log) == [n \in DOMAIN log |-> Ev("call", log[n].fn)]

\* OmniJntImpCntrl.__init__ reading count and num_dof before it checks
\* articulation.initialized
CntrlInitLateCheck(art, override, on_creation, filter_given) ==
    IF ~art.initialized
    THEN [exc |-> "Exception",
          log |-> <<Ev("read", "count"), Ev("read", "num_dof"), Ev("read", "initialized")>>,
          w |-> Unbuilt]
    ELSE LET w == Construct(override, on_creation, filter_given)
         IN [exc |-> "",
             log |-> <<Ev("read", "initialized")>> \o ReadsOfArticulation
                        \o <<Ev("alloc", "jnt_idxs")>>
                        \o (IF filter_given THEN <<Ev("alloc", "filters")>> ELSE <<>>)
                        \o <<Ev("alloc", "buffers")>>
                        \o CallEvents(w.calls),
             w |-> w]

\* OmniJntImpCntrl.__init__(articulation, override_art_controller,
\* init_on_creation, filter_dt): [exc, log, w]
CntrlInit(art, override, on_creation, filter_given) ==
    IF ~art.initialized
    THEN [exc |-> "Exception", log |-> <<Ev("read", "initialized")>>, w |-> Unbuilt]
    ELSE LET w == Construct(override, on_creation, filter_given)
         IN [exc |-> "",
             log |-> <<Ev("read", "initialized")>> \o ReadsOfArticulation
                        \o <<Ev("alloc", "jnt_idxs")>>
                        \o (IF filter_given THEN <<Ev("alloc", "filters")>> ELSE <<>>)
                        \o <<Ev("alloc", "buffers")>>
                        \o CallEvents(w.calls),
             w |-> w]

\* get_jnt_names_matching with a prefix test in place of the substring test
GetJntNamesMatchingPrefix(jnts_names, name_pattern) ==
    SelectSeq(jnts_names,
              LAMBDA jnt : /\ Len(name_pattern) <= Len(jnt)
                           /\ SubSeq(jnt, 1, Len(name_pattern)) = name_pattern)

\* get_jnt_names_matching
GetJntNamesMatching(jnts_names, name_pattern) ==
    SelectSeq(jnts_names, LAMBDA jnt : Contains(name_pattern, jnt))

\* list.index(x): the first position (0-based) that holds x
ListIndex(list, x) ==
    (CHOOSE n \in DOMAIN list : list[n] = x /\ \A m \in 1 .. (n - 1) : list[m] # x) - 1

\* get_jnt_idxs_matching: an int64 tensor of the matching names' indices
GetJntIdxsMatchingOp(jnts_names, name_pattern) ==
    LET names == GetJntNamesMatching(jnts_names, name_pattern)
    IN Idx([n \in DOMAIN names |-> ListIndex(jnts_names, names[n])])

\* ------------------------------------------------------- OmniRobotHomer
NoHomer == [srdf_content |-> <<>>, well_formed |-> TRUE, joint_idx_map |-> <<>>,
            homing_map |-> <<>>, homing |-> None]

\* joint_idx_map: name -> index, the last index for a name given twice
JointIdxMap(jnts_names) ==
    [name \in {jnts_names[n] : n \in DOMAIN jnts_names} |->
        (CHOOSE n \in DOMAIN jnts_names :
            jnts_names[n] = name /\ \A m \in (n + 1) .. Len(jnts_names) : jnts_names[m] # name) - 1]

\* the keys of _homing_map in insertion order: each name at its first
\* occurrence in the document
RECURSIVE HomingKeys(_)
HomingKeys(doc) ==
    IF doc = <<>> THEN <<>>
    ELSE LET front == HomingKeys(SubSeq(doc, 1, Len(doc) - 1))
             name == doc[Len(doc)].name
         IN IF \E n \in DOMAIN front : front[n] = name THEN front ELSE Append(front, name)

\* _homing_map: name -> the value of its last occurrence in the document
HomingMap(doc) ==
    [name \in {doc[n].name : n \in DOMAIN doc} |->
        doc[CHOOSE n \in DOMAIN doc :
              doc[n].name = name /\ \A m \in (n + 1) .. Len(doc) : doc[m].name # name].value]

\* _assign2homing writing the row of the first robot only
RECURSIVE Assign2HomingFirstRobot(_, _, _, _, _)
Assign2HomingFirstRobot(keys, n, homing_map, joint_idx_map, homing) ==
    IF n > Len(keys) THEN [exc |-> "", homing |-> homing]
    ELSE IF keys[n] \in DOMAIN joint_idx_map
    THEN Assign2HomingFirstRobot(keys, n + 1, homing_map, joint_idx_map,
                       [c \in Cells |-> IF c[2] = joint_idx_map[keys[n]] /\ c[1] = 0
                                        THEN homing_map[keys[n]] ELSE homing[c]])
    ELSE [exc |-> "AttributeError", homing |-> homing]

\* _assign2homing from the n-th key on: [exc, homing].  The else branch
\* formats self.journal.warning; the homer has no journal attribute.
RECURSIVE Assign2Homing(_, _, _, _, _)
Assign2Homing(keys, n, homing_map, joint_idx_map, homing) ==
    IF n > Len(keys) THEN [exc |-> "", homing |-> homing]
    ELSE IF keys[n] \in DOMAIN joint_idx_map
    THEN Assign2Homing(keys, n + 1, homing_map, joint_idx_map,
                       [c \in Cells |-> IF c[2] = joint_idx_map[keys[n]]
                                        THEN homing_map[keys[n]] ELSE homing[c]])
    ELSE [exc |-> "AttributeError", homing |-> homing]

\* OmniRobotHomer.__init__(articulation, srdf_path), doc being the joint
\* elements of the "home" group state of the file: [exc, log, h]
HomerInit(art, doc) ==
    IF ~art.initialized
    THEN [exc |-> "Exception", log |-> <<Ev("read", "initialized")>>, h |-> NoHomer]
    ELSE LET joint_idx_map == JointIdxMap(art.dof_names)
             homing_map == HomingMap(doc)
             a == Assign2Homing(HomingKeys(doc), 1, homing_map, joint_idx_map, Zeros)
         IN [exc |-> a.exc,
             log |-> <<Ev("read", "initialized")>> \o ReadsOfArticulation
                        \o <<Ev("alloc", "homing")>>,
             h |-> [srdf_content |-> doc,
                    well_formed |-> TRUE,
                    joint_idx_map |-> joint_idx_map,
                    homing_map |-> homing_map,
                    homing |-> a.homing]]

\* OmniRobotHomer.__init__ on a file that ET.fromstring may reject.  The
\* handler of ET.ParseError formats self.journal.warning, and the homer has
\* no journal attribute: the AttributeError raised in the handler is the
\* exception that leaves the constructor.
HomerInitFile(art, file) ==
    IF art.initialized /\ ~file.well_formed
    THEN [exc |-> "AttributeError",
          log |-> <<Ev("read", "initialized")>> \o ReadsOfArticulation
                     \o <<Ev("alloc", "homing"), Ev("except", "ParseError")>>,
          h |-> [srdf_content |-> file.joints,
                 well_formed |-> FALSE,
                 joint_idx_map |-> JointIdxMap(art.dof_names),
                 homing_map |-> <<>>,
                 homing |-> Zeros]]
    ELSE HomerInit(art, file.joints)

NoCtor ==
    [OmniJntImpCntrl |-> [done |-> FALSE, exc |-> "", log |-> <<>>],
     OmniRobotHomer |-> [done |-> FALSE, exc |-> "", log |-> <<>>]]

NoRet == [op |-> "", args |-> <<>>, value |-> None]

\* the dof_names of the articulation the call sequences run on
DefaultNames == [n \in 1 .. NDofs |-> [m \in 1 .. n |-> "j"]]

\* ------------------------------------------------------------- CustomTask
Envs == 1 .. NumEnvs
PosUnit == MaxDt * (MaxDt - 1)

\* an optional list argument: None, or a list
NoList == [none |-> TRUE, list |-> <<>>]
ListArg(l) == [none |-> FALSE, list |-> l]

\* the dt argument of _get_robots_state and reset: None, or a number
NoDt == [none |-> TRUE, value |-> 0]
Dt(v) == [none |-> FALSE, value |-> v]

\* the number (q + s * sqrt(3)) / 2
Surd(q, s) == [q |-> q, s |-> s]
SurdOfInt(n) == Surd(2 * n, 0)
SurdAdd(a, b) == Surd(a.q + b.q, a.s + b.s)
SurdScale(n, a) == Surd(n * a.q, n * a.s)

\* math.cos and math.sin of k twelfths of a turn, exactly
Cos12(k) ==
    CASE k % 12 = 0 -> Surd(2, 0)
      [] k % 12 \in {1, 11} -> Surd(0, 1)
      [] k % 12 \in {2, 10} -> Surd(1, 0)
      [] k % 12 \in {3, 9} -> Surd(0, 0)
      [] k % 12 \in {4, 8} -> Surd(0 - 1, 0)
      [] k % 12 \in {5, 7} -> Surd(0, 0 - 1)
      [] k % 12 = 6 -> Surd(0 - 2, 0)
Sin12(k) == Cos12(k + 9)

\* the offset of the robot at angle k twelfths of a turn, one row per
\* environment
OffsetAt(spawning_radius, k) ==
    [e \in Envs |-> <<SurdScale(spawning_radius, Cos12(k)),
                      SurdScale(spawning_radius, Sin12(k)),
                      SurdOfInt(0)>>]

\* _calc_robot_distrib with the angle of robot i being offset_baseangle * i
CalcRobotDistribFromZero(robot_names, spawning_radius) ==
    LET n_robots == Len(robot_names)
    IN [i \in 1 .. n_robots |-> OffsetAt(spawning_radius, (12 \div n_robots) * (i - 1))]

\* _calc_robot_distrib: distr_offset, by position in robot_names (position
\* i here is index i - 1 in the code, whose angle is
\* offset_baseangle * ((i - 1) + 1)); n_robots divides 12
CalcRobotDistrib(robot_names, spawning_radius) ==
    LET n_robots == Len(robot_names)
    IN [i \in 1 .. n_robots |-> OffsetAt(spawning_radius, (12 \div n_robots) * i)]

\* a CustomTask before __init__
NoTask ==
    [built |-> FALSE, exc |-> "", args |-> <<>>,
     robot_names |-> <<>>, robot_pkg_names |-> <<>>,
     fix_base |-> <<>>, self_collide |-> <<>>, merge_fixed |-> <<>>,
     spawning_radius |-> 0, distr_offset |-> <<>>,
     state_initialized |-> FALSE,
     root_p |-> <<>>, root_q |-> <<>>, jnts_q |-> <<>>,
     root_p_prev |-> <<>>, root_q_prev |-> <<>>, jnts_q_prev |-> <<>>,
     root_p_default |-> <<>>, root_q_default |-> <<>>,
     root_v |-> <<>>, root_omega |-> <<>>, jnts_v |-> <<>>,
     last |-> [op |-> "", dt |-> NoDt, reset |-> FALSE],
     before |-> [op |-> "", dt |-> NoDt, reset |-> FALSE],
     cntrl_calls |-> <<>>, k |-> 0]

Falses(n) == [i \in 1 .. n |-> FALSE]

\* the length check of one per-robot option list against the robot_pkg_names
\* argument, which is None when the argument was not given: "TypeError" is
\* len(None)
OptionCheck(option, robot_pkg_names) ==
    IF option.none THEN ""
    ELSE IF robot_pkg_names.none THEN "TypeError"
    ELSE IF Len(option.list) # Len(robot_pkg_names.list) THEN "Exception"
    ELSE ""

\* CustomTask.__init__(robot_names, robot_pkg_names, fix_base, self_collide,
\* merge_fixed, spawning_radius) up to _calc_robot_distrib, contact_prims
\* being given; "Exception" is a dimension mismatch
CustomTaskInit(a) ==
    LET n == Len(a.robot_names)
        raised(exc) == [NoTask EXCEPT !.built = TRUE, !.exc = exc, !.args = a]
        e1 == IF ~a.robot_pkg_names.none /\ n # Len(a.robot_pkg_names.list)
              THEN "Exception" ELSE ""
        e2 == OptionCheck(a.fix_base, a.robot_pkg_names)
        e3 == OptionCheck(a.self_collide, a.robot_pkg_names)
        e4 == OptionCheck(a.merge_fixed, a.robot_pkg_names)
    IN IF e1 # "" THEN raised(e1)
       ELSE IF e2 # "" THEN raised(e2)
       ELSE IF e3 # "" THEN raised(e3)
       ELSE IF e4 # "" THEN raised(e4)
       ELSE IF n = 0 THEN raised("ZeroDivisionError")
       ELSE [NoTask EXCEPT
               !.built = TRUE, !.args = a,
               !.robot_names = a.robot_names,
               !.robot_pkg_names = IF a.robot_pkg_names.none THEN a.robot_names
                                   ELSE a.robot_pkg_names.list,
               !.fix_base = IF a.fix_base.none THEN Falses(n) ELSE a.fix_base.list,
               !.self_collide = IF a.self_collide.none THEN Falses(n)
                                ELSE a.self_collide.list,
               !.merge_fixed = IF a.merge_fixed.none THEN Falses(n)
                               ELSE a.merge_fixed.list,
               !.spawning_radius = a.spawning_radius,
               !.distr_offset = CalcRobotDistrib(a.robot_names, a.spawning_radius)]

\* what the articulation views return for the robots of the task: per robot,
\* world poses (positions, orientations), joint positions and velocities.
\* Snapshot k of the world with n robots per environment; orientations are
\* opaque values.
Snapshot(k, n) ==
    [k |-> k,
     root_p |-> [i \in 1 .. n |-> [e \in Envs |->
                   <<PosUnit * (k * i + e), PosUnit * (k * k - i), PosUnit * e>>]],
     root_q |-> [i \in 1 .. n |-> [e \in Envs |-> 100 * k + 10 * i + e]],
     jnts_q |-> [i \in 1 .. n |-> [c \in Envs \X Joints |->
                   PosUnit * (k * (c[2] + 1) - c[1] + i)]],
     root_v |-> [i \in 1 .. n |-> [e \in Envs |-> <<k + 1, 0 - i, e>>]],
     root_omega |-> [i \in 1 .. n |-> [e \in Envs |-> <<e, k + 2, i>>]],
     jnts_v |-> [i \in 1 .. n |-> [c \in Envs \X Joints |-> 3 + k + c[2] + i]]]

Zero3 == [e \in Envs |-> <<0, 0, 0>>]
ZeroJnts == [c \in Envs \X Joints |-> 0]

\* a root angular velocity: read from the simulation, zeroed, or the value
\* of quat_to_omega(q, q_prev, dt), which is kept as an expression
OmegaRead(value) ==
    [src |-> "get_angular_velocities", q |-> <<>>, q_prev |-> <<>>, dt |-> 0,
     value |-> value]
OmegaZero ==
    [src |-> "zero_", q |-> <<>>, q_prev |-> <<>>, dt |-> 0, value |-> Zero3]
OmegaDiff(q, q_prev, dt) ==
    [src |-> "quat_to_omega", q |-> q, q_prev |-> q_prev, dt |-> dt, value |-> <<>>]

\* _init_robots_state for world state w
InitRobotsStateOp(t, w) ==
    LET n == Len(t.robot_names)
    IN [t EXCEPT
          !.state_initialized = TRUE,
          !.root_p = w.root_p, !.root_p_prev = w.root_p,
          !.root_p_default =
              [i \in 1 .. n |-> [e \in Envs |->
                  [x \in 1 .. 3 |-> SurdAdd(SurdOfInt(w.root_p[i][e][x]),
                                            t.distr_offset[i][e][x])]]],
          !.root_q = w.root_q, !.root_q_prev = w.root_q, !.root_q_default = w.root_q,
          !.jnts_q = w.jnts_q, !.jnts_q_prev = w.jnts_q,
          !.root_v = w.root_v,
          !.root_omega = [i \in 1 .. n |-> OmegaRead(w.root_omega[i])],
          !.jnts_v = w.jnts_v,
          !.last = [op |-> "_init_robots_state", dt |-> NoDt, reset |-> FALSE]]

\* synch_default_root_states
SynchDefaultRootStatesOp(t) ==
    [t EXCEPT
       !.root_p_default =
           [i \in DOMAIN t.root_p |-> [e \in Envs |->
               [x \in 1 .. 3 |-> SurdOfInt(t.root_p[i][e][x])]]],
       !.root_q_default = t.root_q,
       !.last = [op |-> "synch_default_root_states", dt |-> NoDt, reset |-> FALSE]]

\* _get_robots_state(dt, reset) with the previous-state buffers refreshed on
\* the ticks that are not reset ticks only
GetRobotsStateStalePrevOp(t, w, dt, reset) ==
    LET n == Len(t.robot_names)
        read == [t EXCEPT !.root_p = w.root_p, !.root_q = w.root_q, !.jnts_q = w.jnts_q,
                          !.last = [op |-> "_get_robots_state", dt |-> dt, reset |-> reset]]
    IN IF dt.none
       THEN [read EXCEPT
               !.root_v = w.root_v,
               !.root_omega = [i \in 1 .. n |-> OmegaRead(w.root_omega[i])],
               !.jnts_v = w.jnts_v]
       ELSE IF ~reset
       THEN [read EXCEPT
               !.root_v = [i \in 1 .. n |-> [e \in Envs |-> [x \in 1 .. 3 |->
                             (w.root_p[i][e][x] - t.root_p_prev[i][e][x]) \div dt.value]]],
               !.root_omega = [i \in 1 .. n |->
                                 OmegaDiff(w.root_q[i], t.root_q_prev[i], dt.value)],
               !.jnts_v = [i \in 1 .. n |-> [c \in Envs \X Joints |->
                             (w.jnts_q[i][c] - t.jnts_q_prev[i][c]) \div dt.value]],
               !.root_p_prev = w.root_p, !.root_q_prev = w.root_q,
               !.jnts_q_prev = w.jnts_q]
       ELSE [read EXCEPT
               !.root_v = [i \in 1 .. n |-> Zero3],
               !.root_omega = [i \in 1 .. n |-> OmegaZero],
               !.jnts_v = [i \in 1 .. n |-> ZeroJnts]]

\* _get_robots_state(dt, reset) for world state w
GetRobotsStateOp(t, w, dt, reset) ==
    LET n == Len(t.robot_names)
        read == [t EXCEPT !.root_p = w.root_p, !.root_q = w.root_q, !.jnts_q = w.jnts_q,
                          !.last = [op |-> "_get_robots_state", dt |-> dt, reset |-> reset]]
        prev(u) == [u EXCEPT !.root_p_prev = w.root_p, !.root_q_prev = w.root_q,
                             !.jnts_q_prev = w.jnts_q]
    IN IF dt.none
       THEN [read EXCEPT
               !.root_v = w.root_v,
               !.root_omega = [i \in 1 .. n |-> OmegaRead(w.root_omega[i])],
               !.jnts_v = w.jnts_v]
       ELSE IF ~reset
       THEN prev([read EXCEPT
               !.root_v = [i \in 1 .. n |-> [e \in Envs |-> [x \in 1 .. 3 |->
                             (w.root_p[i][e][x] - t.root_p_prev[i][e][x]) \div dt.value]]],
               !.root_omega = [i \in 1 .. n |->
                                 OmegaDiff(w.root_q[i], t.root_q_prev[i], dt.value)],
               !.jnts_v = [i \in 1 .. n |-> [c \in Envs \X Joints |->
                             (w.jnts_q[i][c] - t.jnts_q_prev[i][c]) \div dt.value]]])
       ELSE prev([read EXCEPT
               !.root_v = [i \in 1 .. n |-> Zero3],
               !.root_omega = [i \in 1 .. n |-> OmegaZero],
               !.jnts_v = [i \in 1 .. n |-> ZeroJnts]])

\* the calls _reset_jnt_imp_control(robot_name) makes on the controller of
\* robot i; wheels: whether get_jnt_idxs_matching("wheel") is not empty
ResetJntImpControlCalls(i, wheels) ==
    <<<<i, "reset">>, <<i, "update_state">>, <<i, "get_jnt_idxs_matching">>>>
    \o (IF wheels THEN <<<<i, "set_gains">>>> ELSE <<>>)
    \o <<<<i, "set_refs">>, <<i, "apply_cmds">>>>

RECURSIVE ResetCalls(_, _)
ResetCalls(n, wheels) ==
    IF n = 0 THEN <<>>
    ELSE ResetCalls(n - 1, wheels) \o ResetJntImpControlCalls(n, wheels)

\* CustomTask.reset(integration_dt) for world state w
TaskResetOp(t, w, integration_dt, wheels) ==
    [GetRobotsStateOp(t, w, integration_dt, TRUE) EXCEPT
        !.last = [op |-> "reset", dt |-> integration_dt, reset |-> TRUE],
        !.cntrl_calls = ResetCalls(Len(t.robot_names), wheels)]

\* ------------------------------------------------------------------ state
VARIABLES
    override_art_controller, init_on_creation, filter_available,
    gains_initialized, refs_initialized,
    pos_gains, vel_gains, eff_ref, pos_ref, vel_ref,
    pos_err, vel_err, pos, vel, eff, imp_eff,
    pos_ref_filter, vel_ref_filter, eff_ref_filter,
    art_kps, art_kds,
    calls,
    last,
    nops,
    view,
    articulation, ctor, homer, ret,
    flt, flt_k,
    task, world

\* calls: the calls the last operation made on the articulation view (and to
\* torch.cuda.synchronize), in order.  last: the last operation, its
\* arguments, the exception it raised ("" for none), the success list it
\* returned, the indxs_check and selector of its _gen_selector, the
\* operation made before it (prev) and the number of apply_cmds calls made
\* since construction or the last reset, this one included (applies, counted
\* up to 2).
\* nops: the number of operations made since construction.
\* view: the tensor a caller obtained from a read accessor: the accessor's
\* field, whether the tensor still shares the storage of the controller's
\* buffer (live) and, once it does not, the content it keeps (data).
\* articulation: the ArticulationView handed to the constructors: its
\* initialized flag and its dof_names (count is NumRobots, num_dof NDofs).
\* ctor: per class, whether its constructor ran, the exception it raised and
\* the articulation attributes it read and the tensors it allocated, in
\* order.  homer: the fields of the OmniRobotHomer.  ret: the value the last
\* query returned.
\* flt: a FirstOrderFilter of its own; flt_k: the calls made on it.
\* task: the fields of the CustomTask, the last call made on it (last), the
\* call before that one (before), the calls its last reset made on the
\* controllers (cntrl_calls) and the number of calls made on the
\* synchronizer (k); world: what the articulation views of the task's robots
\* return at present.

vars == <<override_art_controller, init_on_creation, filter_available,
          gains_initialized, refs_initialized,
          pos_gains, vel_gains, eff_ref, pos_ref, vel_ref,
          pos_err, vel_err, pos, vel, eff, imp_eff,
          pos_ref_filter, vel_ref_filter, eff_ref_filter,
          art_kps, art_kds, calls, last, nops, view,
          articulation, ctor, homer, ret, flt, flt_k, task, world>>

setup_vars == <<articulation, ctor, homer, ret>>
filter_vars == <<flt, flt_k>>
task_vars == <<task, world>>

\* the controller and its articulation as one record; calls starts empty at
\* every operation
Self ==
    [override_art_controller |-> override_art_controller,
     init_on_creation |-> init_on_creation,
     filter_available |-> filter_available,
     gains_initialized |-> gains_initialized,
     refs_initialized |-> refs_initialized,
     pos_gains |-> pos_gains, vel_gains |-> vel_gains,
     eff_ref |-> eff_ref, pos_ref |-> pos_ref, vel_ref |-> vel_ref,
     pos_err |-> pos_err, vel_err |-> vel_err,
     pos |-> pos, vel |-> vel, eff |-> eff,
     imp_eff |-> imp_eff,
     pos_ref_filter |-> pos_ref_filter,
     vel_ref_filter |-> vel_ref_filter,
     eff_ref_filter |-> eff_ref_filter,
     art_kps |-> art_kps, art_kds |-> art_kds,
     calls |-> <<>>]

Commit(w) ==
    /\ override_art_controller' = w.override_art_controller
    /\ init_on_creation' = w.init_on_creation
    /\ filter_available' = w.filter_available
    /\ gains_initialized' = w.gains_initialized
    /\ refs_initialized' = w.refs_initialized
    /\ pos_gains' = w.pos_gains
    /\ vel_gains' = w.vel_gains
    /\ eff_ref' = w.eff_ref
    /\ pos_ref' = w.pos_ref
    /\ vel_ref' = w.vel_ref
    /\ pos_err' = w.pos_err
    /\ vel_err' = w.vel_err
    /\ pos' = w.pos
    /\ vel' = w.vel
    /\ eff' = w.eff
    /\ imp_eff' = w.imp_eff
    /\ pos_ref_filter' = w.pos_ref_filter
    /\ vel_ref_filter' = w.vel_ref_filter
    /\ eff_ref_filter' = w.eff_ref_filter
    /\ art_kps' = w.art_kps
    /\ art_kds' = w.art_kds
    /\ calls' = w.calls

NoArgs == [filter |-> FALSE]
NoView == [none |-> TRUE, field |-> "", live |-> FALSE, data |-> Zeros]

\* the buffers behind the read accessors
Attrs ==
    [pos_gains |-> pos_gains, vel_gains |-> vel_gains,
     eff_ref |-> eff_ref, pos_ref |-> pos_ref, vel_ref |-> vel_ref,
     pos_err |-> pos_err, vel_err |-> vel_err,
     pos |-> pos, vel |-> vel, eff |-> eff, imp_eff |-> imp_eff]

\* the buffer attributes a call binds to a newly allocated tensor: reset()
\* all of them; apply_cmds, overriding, the errors and the impedance effort
\* (the filtered call raises after it has bound _pos_err)
Rebound(op, a) ==
    CASE op = "reset" -> DOMAIN Attrs
      [] op = "apply_cmds" ->
           IF ~override_art_controller THEN {}
           ELSE IF a.filter /\ filter_available THEN {"pos_err"}
           ELSE {"pos_err", "vel_err", "imp_eff"}
      [] OTHER -> {}
NoCheck == <<"NONE", "NONE">>

\* the state after OmniJntImpCntrl(articulation, override_art_controller,
\* init_on_creation, filter_dt)
Init ==
    \E override \in BOOLEAN, on_creation \in BOOLEAN, filter_given \in BOOLEAN :
        LET w == Construct(override, on_creation, filter_given)
        IN /\ override_art_controller = w.override_art_controller
           /\ init_on_creation = w.init_on_creation
           /\ filter_available = w.filter_available
           /\ gains_initialized = w.gains_initialized
           /\ refs_initialized = w.refs_initialized
           /\ pos_gains = w.pos_gains
           /\ vel_gains = w.vel_gains
           /\ eff_ref = w.eff_ref
           /\ pos_ref = w.pos_ref
           /\ vel_ref = w.vel_ref
           /\ pos_err = w.pos_err
           /\ vel_err = w.vel_err
           /\ pos = w.pos
           /\ vel = w.vel
           /\ eff = w.eff
           /\ imp_eff = w.imp_eff
           /\ pos_ref_filter = w.pos_ref_filter
           /\ vel_ref_filter = w.vel_ref_filter
           /\ eff_ref_filter = w.eff_ref_filter
           /\ art_kps = w.art_kps
           /\ art_kds = w.art_kds
           /\ calls = w.calls
           /\ last = [op |-> "__init__", args |-> NoArgs, exc |-> "", success |-> <<>>,
                      check |-> NoCheck, selector |-> NoSelector,
                      prev |-> "", applies |-> 0]
           /\ nops = 0
           /\ view = NoView
           /\ articulation = [initialized |-> TRUE, dof_names |-> DefaultNames]
           /\ ctor = [NoCtor EXCEPT
                        !.OmniJntImpCntrl =
                           [done |-> TRUE, exc |-> "",
                            log |-> CntrlInit(articulation, override, on_creation,
                                              filter_given).log]]
           /\ homer = NoHomer
           /\ ret = NoRet
           /\ flt = FirstOrderFilter
           /\ flt_k = 0
           /\ task = NoTask
           /\ world = Snapshot(0, 0)

\* ----------------------------------------------------------------- inputs
\* index tensors handed to the selector-scoped calls
LastRobot == Idx(<<NumRobots - 1>>)
OuterJoints == Idx(<<0, NDofs - 1>>)
JointOutOfBounds == Idx(<<NDofs + 2>>)
RobotOutOfBounds == Idx(<<NumRobots>>)
RepeatedRobot == Idx(<<0, 0>>)
RepeatedJoint == Idx(<<1, 1>>)
EmptyIdx == Idx(<<>>)
TwoDimIdx == Tensor(<<1, 1>>, "int64", Device, <<0>>)
FloatIdx == Tensor(<<1>>, "double", Device, <<0>>)
NegativeIdx == Idx(<<0 - 1>>)

\* (robot_indxs, jnt_indxs) pairs
IdxPairs ==
    { <<None, None>>,
      <<LastRobot, OuterJoints>>,
      <<LastRobot, None>>,
      <<None, OuterJoints>>,
      <<None, JointOutOfBounds>>,
      <<LastRobot, JointOutOfBounds>>,
      <<RobotOutOfBounds, None>>,
      <<RepeatedRobot, OuterJoints>>,
      <<LastRobot, RepeatedJoint>>,
      <<None, EmptyIdx>>,
      <<TwoDimIdx, None>>,
      <<None, FloatIdx>>,
      <<NegativeIdx, None>> }

\* the shape a signal needs to match the index sets p as given
FitShape(p) ==
    << IF p[1].none THEN NumRobots ELSE Len(p[1].data),
       IF p[2].none THEN NDofs ELSE Len(p[2].data) >>

Fit(p, base, step) == Mat(FitShape(p)[1], FitShape(p)[2], base, step, Device)
Whole(base, step) == Mat(NumRobots, NDofs, base, step, Device)

\* signals tried against every index pair: one shaped as the index sets, one
\* covering the whole buffer, one of a single dimension
Probes(p, base, step) ==
    {Fit(p, base, step), Whole(base, step)}
        \cup (IF p[2].none THEN {Vec(NumRobots, base, step)} ELSE {})

\* per-field choices of the calls that supply several fields: none, one
\* matching the index sets, one of another shape, one on another device
Choices(p, base, step) ==
    { None,
      Fit(p, base, step),
      Mat(1, 1, base, step, Device),
      Mat(FitShape(p)[1], FitShape(p)[2], base, step, OtherDevice) }

ScopedPairs == { <<LastRobot, OuterJoints>> }

UpdateStateInputs ==
    UNION {{[pos |-> s, vel |-> None, eff |-> None,
             robot_indxs |-> p[1], jnt_indxs |-> p[2]] : s \in Probes(p, Unit, Unit)}
           : p \in IdxPairs}
    \cup UNION {{[pos |-> a, vel |-> b, eff |-> c,
                  robot_indxs |-> p[1], jnt_indxs |-> p[2]] :
                     a \in Choices(p, Unit, Unit),
                     b \in Choices(p, 2 * Unit, 2 * Unit),
                     c \in Choices(p, 3 * Unit, 3 * Unit)}
                : p \in ScopedPairs}
    \cup {[pos |-> Fit(p, Unit, Unit), vel |-> Vec(NumRobots, 2 * Unit, 2 * Unit),
            eff |-> Fit(p, 3 * Unit, 3 * Unit),
            robot_indxs |-> p[1], jnt_indxs |-> p[2]] : p \in ScopedPairs}

SetRefsInputs ==
    UNION {{[eff_ref |-> s, pos_ref |-> None, vel_ref |-> None,
             robot_indxs |-> p[1], jnt_indxs |-> p[2]] : s \in Probes(p, 4 * Unit, Unit)}
           : p \in IdxPairs}
    \cup UNION {{[eff_ref |-> a, pos_ref |-> b, vel_ref |-> c,
                  robot_indxs |-> p[1], jnt_indxs |-> p[2]] :
                     a \in Choices(p, 4 * Unit, Unit),
                     b \in Choices(p, 5 * Unit, 2 * Unit),
                     c \in Choices(p, 6 * Unit, 3 * Unit)}
                : p \in ScopedPairs}
    \cup {[eff_ref |-> Fit(p, 4 * Unit, Unit), pos_ref |-> Vec(NumRobots, 5 * Unit, 2 * Unit),
            vel_ref |-> Fit(p, 6 * Unit, 3 * Unit),
            robot_indxs |-> p[1], jnt_indxs |-> p[2]] : p \in ScopedPairs}

SetGainsInputs ==
    UNION {{[pos_gains |-> s, vel_gains |-> None,
             robot_indxs |-> p[1], jnt_indxs |-> p[2]] : s \in Probes(p, 5, 2)}
           : p \in IdxPairs}
    \cup UNION {{[pos_gains |-> a, vel_gains |-> b,
                  robot_indxs |-> p[1], jnt_indxs |-> p[2]] :
                     a \in Choices(p, 5, 2),
                     b \in Choices(p, 1, 1)}
                : p \in ScopedPairs \cup { <<None, None>> }}

\* ---------------------------------------------------------------- actions
Returned(op, a, o) ==
    /\ Commit(o.w)
    /\ last' = [op |-> op, args |-> a, exc |-> o.exc, success |-> o.success,
                check |-> o.check, selector |-> o.selector,
                prev |-> last.op,
                applies |-> IF op = "reset" THEN 0
                            ELSE IF op = "apply_cmds" /\ last.applies < 2
                            THEN last.applies + 1
                            ELSE last.applies]
    /\ nops' = nops + 1
    /\ view' = IF ~view.none /\ view.live /\ view.field \in Rebound(op, a)
               THEN [view EXCEPT !.live = FALSE, !.data = Attrs[view.field]]
               ELSE view
    /\ UNCHANGED <<setup_vars, filter_vars, task_vars>>

UpdateState(a) ==
    \E o \in UpdateStateOp(Self, a) : Returned("update_state", a, o)

SetGains(a) ==
    \E o \in SetGainsOp(Self, a) : Returned("set_gains", a, o)

SetRefs(a) ==
    \E o \in SetRefsOp(Self, a) : Returned("set_refs", a, o)

ApplyCmds(filter) ==
    LET o == ApplyCmdsOp(Self, filter)
    IN Returned("apply_cmds", [filter |-> filter],
                [exc |-> o.exc, success |-> <<>>, w |-> o.w,
                 check |-> NoCheck, selector |-> NoSelector])

Reset ==
    Returned("reset", NoArgs, [exc |-> "", success |-> <<>>, w |-> ResetOp(Self),
                               check |-> NoCheck, selector |-> NoSelector])

\* a read accessor: self._<field>[:, :], a view on the buffer's storage
Get(field) ==
    /\ view.none
    /\ view' = [none |-> FALSE, field |-> field, live |-> TRUE, data |-> Zeros]
    /\ UNCHANGED <<override_art_controller, init_on_creation, filter_available,
                   gains_initialized, refs_initialized,
                   pos_gains, vel_gains, eff_ref, pos_ref, vel_ref,
                   pos_err, vel_err, pos, vel, eff, imp_eff,
                   pos_ref_filter, vel_ref_filter, eff_ref_filter,
                   art_kps, art_kds, calls, last, nops>>
    /\ UNCHANGED <<setup_vars, filter_vars, task_vars>>

\* single calls on every kind of index set and signal
Next ==
    \/ \E a \in UpdateStateInputs : nops < MaxOps /\ UpdateState(a)
    \/ \E a \in SetGainsInputs : nops < MaxOps /\ SetGains(a)
    \/ \E a \in SetRefsInputs : nops < MaxOps /\ SetRefs(a)
    \/ \E filter \in BOOLEAN : nops < MaxOps /\ ApplyCmds(filter)
    \/ nops < MaxOps /\ Reset

Spec == Init /\ [][Next]_vars

\* longer call sequences on few, well-formed inputs
SeqUpdateStateInputs ==
    { [pos |-> Whole(Unit, Unit), vel |-> Whole(2 * Unit, 2 * Unit), eff |-> None,
       robot_indxs |-> None, jnt_indxs |-> None],
      [pos |-> Fit(<<LastRobot, OuterJoints>>, 7 * Unit, Unit), vel |-> None, eff |-> None,
       robot_indxs |-> LastRobot, jnt_indxs |-> OuterJoints] }

SeqSetRefsInputs ==
    { [eff_ref |-> Whole(4 * Unit, Unit), pos_ref |-> Whole(5 * Unit, 2 * Unit),
       vel_ref |-> Whole(6 * Unit, 3 * Unit),
       robot_indxs |-> None, jnt_indxs |-> None],
      [eff_ref |-> Fit(<<LastRobot, OuterJoints>>, 9 * Unit, Unit),
       pos_ref |-> Fit(<<LastRobot, OuterJoints>>, 8 * Unit, Unit),
       vel_ref |-> None,
       robot_indxs |-> LastRobot, jnt_indxs |-> OuterJoints] }

SeqSetGainsInputs ==
    { [pos_gains |-> Whole(0, 0), vel_gains |-> Whole(0, 0),
       robot_indxs |-> None, jnt_indxs |-> None],
      [pos_gains |-> Whole(5, 2), vel_gains |-> Whole(1, 1),
       robot_indxs |-> None, jnt_indxs |-> None],
      [pos_gains |-> Fit(<<LastRobot, OuterJoints>>, 5, 2), vel_gains |-> None,
       robot_indxs |-> LastRobot, jnt_indxs |-> OuterJoints] }

SeqNext ==
    \/ \E a \in SeqUpdateStateInputs : nops < MaxSeqOps /\ UpdateState(a)
    \/ \E a \in SeqSetGainsInputs : nops < MaxSeqOps /\ SetGains(a)
    \/ \E a \in SeqSetRefsInputs : nops < MaxSeqOps /\ SetRefs(a)
    \/ \E filter \in BOOLEAN : nops < MaxSeqOps /\ ApplyCmds(filter)
    \/ nops < MaxSeqOps /\ Reset

SeqSpec == Init /\ [][SeqNext]_vars

\* ------------------------------------------------------------ setup
cntrl_vars == <<override_art_controller, init_on_creation, filter_available,
                gains_initialized, refs_initialized,
                pos_gains, vel_gains, eff_ref, pos_ref, vel_ref,
                pos_err, vel_err, pos, vel, eff, imp_eff,
                pos_ref_filter, vel_ref_filter, eff_ref_filter,
                art_kps, art_kds, calls>>

\* joint names, name patterns and homing documents
NamePool == {<<"a">>, <<"b">>, <<"a", "b">>, <<"b", "a">>}
DofNameLists ==
    {l \in [1 .. NDofs -> NamePool] : \A n, m \in 1 .. NDofs : l[n] = l[m] => n = m}
Patterns == {<<>>, <<"a">>, <<"b">>, <<"a", "b">>, <<"b", "b">>}
UnknownJoint == <<"z">>
DocNames == {<<"a">>, <<"b", "a">>, UnknownJoint}
Docs ==
    UNION {{[n \in 1 .. k |-> [name |-> f[n], value |-> n]] : f \in [1 .. k -> DocNames]}
           : k \in 0 .. MaxDoc}

\* the file at srdf_path: well-formed XML or not, and the joint elements of
\* its "home" group state
Files == [well_formed : BOOLEAN, joints : Docs]

\* before any constructor ran
SetupInit ==
    /\ articulation \in [initialized : BOOLEAN, dof_names : DofNameLists]
    /\ ctor = NoCtor
    /\ homer = NoHomer
    /\ ret = NoRet
    /\ override_art_controller = Unbuilt.override_art_controller
    /\ init_on_creation = Unbuilt.init_on_creation
    /\ filter_available = Unbuilt.filter_available
    /\ gains_initialized = Unbuilt.gains_initialized
    /\ refs_initialized = Unbuilt.refs_initialized
    /\ pos_gains = Unbuilt.pos_gains /\ vel_gains = Unbuilt.vel_gains
    /\ eff_ref = Unbuilt.eff_ref /\ pos_ref = Unbuilt.pos_ref /\ vel_ref = Unbuilt.vel_ref
    /\ pos_err = Unbuilt.pos_err /\ vel_err = Unbuilt.vel_err
    /\ pos = Unbuilt.pos /\ vel = Unbuilt.vel /\ eff = Unbuilt.eff
    /\ imp_eff = Unbuilt.imp_eff
    /\ pos_ref_filter = Unbuilt.pos_ref_filter
    /\ vel_ref_filter = Unbuilt.vel_ref_filter
    /\ eff_ref_filter = Unbuilt.eff_ref_filter
    /\ art_kps = Unbuilt.art_kps /\ art_kds = Unbuilt.art_kds
    /\ calls = Unbuilt.calls
    /\ last = [op |-> "", args |-> NoArgs, exc |-> "", success |-> <<>>,
               check |-> NoCheck, selector |-> NoSelector, prev |-> "", applies |-> 0]
    /\ nops = 0
    /\ view = NoView
    /\ flt = FirstOrderFilter
    /\ flt_k = 0
    /\ task = NoTask
    /\ world = Snapshot(0, 0)

\* OmniJntImpCntrl(articulation, override_art_controller, init_on_creation,
\* filter_dt)
NewCntrl(override, on_creation, filter_given) ==
    /\ ~ctor.OmniJntImpCntrl.done
    /\ LET o == CntrlInit(articulation, override, on_creation, filter_given)
       IN /\ Commit(o.w)
          /\ ctor' = [ctor EXCEPT !.OmniJntImpCntrl =
                                     [done |-> TRUE, exc |-> o.exc, log |-> o.log]]
          /\ last' = [last EXCEPT !.op = "__init__", !.exc = o.exc]
    /\ UNCHANGED <<nops, view, articulation, homer, ret, filter_vars, task_vars>>

\* OmniRobotHomer(articulation, srdf_path)
NewHomer(file) ==
    /\ ~ctor.OmniRobotHomer.done
    /\ LET o == HomerInitFile(articulation, file)
       IN /\ homer' = o.h
          /\ ctor' = [ctor EXCEPT !.OmniRobotHomer =
                                     [done |-> TRUE, exc |-> o.exc, log |-> o.log]]
    /\ UNCHANGED <<cntrl_vars, last, nops, view, articulation, ret, filter_vars, task_vars>>

\* get_jnt_idxs_matching(name_pattern) on the constructed controller, whose
\* jnts_names is the articulation's dof_names
GetJntIdxsMatching(name_pattern) ==
    /\ ctor.OmniJntImpCntrl.done /\ ctor.OmniJntImpCntrl.exc = ""
    /\ ret' = [op |-> "get_jnt_idxs_matching", args |-> name_pattern,
               value |-> GetJntIdxsMatchingOp(articulation.dof_names, name_pattern)]
    /\ UNCHANGED <<cntrl_vars, last, nops, view, articulation, ctor, homer, filter_vars, task_vars>>

SetupNext ==
    \/ \E override \in BOOLEAN, on_creation \in BOOLEAN, filter_given \in BOOLEAN :
          NewCntrl(override, on_creation, filter_given)
    \/ \E file \in Files : NewHomer(file)
    \/ \E name_pattern \in Patterns : GetJntIdxsMatching(name_pattern)

SetupSpec == SetupInit /\ [][SetupNext]_vars

\* ------------------------------------------------- a filter of its own
\* the values of kh2: the controller's, one with kh2 = 1 and a small one
Kh2s == {[num |-> Kh2Num, den |-> Kh2Den], [num |-> 1, den |-> 1],
         [num |-> 1, den |-> 7]}

\* the refk arguments of update for filter f: None, or a [num_robots, n_dofs]
\* tensor of multiples of c_den ^ MaxFltOps, which keeps MaxFltOps updates
\* exact in integers
FltRefs(f) ==
    {None} \cup
    {Tensor(FullShape, "double", Device,
            [c \in Cells |-> Pow(f.c_den, MaxFltOps) * (b + s * c[1] * c[2])])
       : b \in {0 - 2, 1}, s \in {0, 1}}

\* a FirstOrderFilter right after construction; no controller, no homer
FilterInit ==
    /\ flt \in {NewFilter(kh2) : kh2 \in Kh2s}
    /\ flt_k = 0
    /\ task = NoTask
    /\ world = Snapshot(0, 0)
    /\ ret = NoRet
    /\ articulation = [initialized |-> TRUE, dof_names |-> DefaultNames]
    /\ ctor = NoCtor
    /\ homer = NoHomer
    /\ override_art_controller = Unbuilt.override_art_controller
    /\ init_on_creation = Unbuilt.init_on_creation
    /\ filter_available = Unbuilt.filter_available
    /\ gains_initialized = Unbuilt.gains_initialized
    /\ refs_initialized = Unbuilt.refs_initialized
    /\ pos_gains = Unbuilt.pos_gains /\ vel_gains = Unbuilt.vel_gains
    /\ eff_ref = Unbuilt.eff_ref /\ pos_ref = Unbuilt.pos_ref /\ vel_ref = Unbuilt.vel_ref
    /\ pos_err = Unbuilt.pos_err /\ vel_err = Unbuilt.vel_err
    /\ pos = Unbuilt.pos /\ vel = Unbuilt.vel /\ eff = Unbuilt.eff
    /\ imp_eff = Unbuilt.imp_eff
    /\ pos_ref_filter = Unbuilt.pos_ref_filter
    /\ vel_ref_filter = Unbuilt.vel_ref_filter
    /\ eff_ref_filter = Unbuilt.eff_ref_filter
    /\ art_kps = Unbuilt.art_kps /\ art_kds = Unbuilt.art_kds
    /\ calls = Unbuilt.calls
    /\ last = [op |-> "", args |-> NoArgs, exc |-> "", success |-> <<>>,
               check |-> NoCheck, selector |-> NoSelector, prev |-> "", applies |-> 0]
    /\ nops = 0
    /\ view = NoView

\* flt.update(refk), then flt.get()
FltUpdate(refk) ==
    /\ flt_k < MaxFltOps
    /\ flt' = Update(flt, refk)
    /\ flt_k' = flt_k + 1
    /\ ret' = [op |-> "update", args |-> refk,
               value |-> Tensor(FullShape, "double", Device, FilterGet(flt'))]
    /\ UNCHANGED <<cntrl_vars, last, nops, view, articulation, ctor, homer, task_vars>>

\* flt.reset()
FltReset ==
    /\ flt_k < MaxFltOps
    /\ flt' = FilterReset(flt)
    /\ flt_k' = flt_k + 1
    /\ ret' = [op |-> "reset", args |-> None, value |-> None]
    /\ UNCHANGED <<cntrl_vars, last, nops, view, articulation, ctor, homer, task_vars>>

FilterNext ==
    \/ \E refk \in FltRefs(flt) : FltUpdate(refk)
    \/ FltReset

FilterSpec == FilterInit /\ [][FilterNext]_vars

\* ------------------------------------------------------------ the task
\* robot names: r, rr, rrr, ...
RobotNames(n) == [i \in 1 .. n |-> [m \in 1 .. i |-> "r"]]
\* the lengths of robot_names: those for which the angles are twelfths of a
\* turn, and the empty list
KindCounts == {n \in 0 .. MaxKinds : n = 0 \/ 12 % n = 0}
OptionLists == {NoList} \cup {ListArg(Falses(k)) : k \in 0 .. MaxKinds}
PkgLists == {NoList} \cup {ListArg(RobotNames(k)) : k \in 0 .. MaxKinds}
TaskArgs ==
    [robot_names : {RobotNames(n) : n \in KindCounts},
     robot_pkg_names : PkgLists,
     fix_base : OptionLists, self_collide : OptionLists, merge_fixed : OptionLists,
     spawning_radius : {1, 2}]

\* the world the articulation views read, for up to MaxKinds robots
World(k) == Snapshot(k, MaxKinds)

\* no controller, homer or filter of its own
NoneBuilt ==
    /\ flt = FirstOrderFilter
    /\ flt_k = 0
    /\ ret = NoRet
    /\ articulation = [initialized |-> TRUE, dof_names |-> DefaultNames]
    /\ ctor = NoCtor
    /\ homer = NoHomer
    /\ override_art_controller = Unbuilt.override_art_controller
    /\ init_on_creation = Unbuilt.init_on_creation
    /\ filter_available = Unbuilt.filter_available
    /\ gains_initialized = Unbuilt.gains_initialized
    /\ refs_initialized = Unbuilt.refs_initialized
    /\ pos_gains = Unbuilt.pos_gains /\ vel_gains = Unbuilt.vel_gains
    /\ eff_ref = Unbuilt.eff_ref /\ pos_ref = Unbuilt.pos_ref /\ vel_ref = Unbuilt.vel_ref
    /\ pos_err = Unbuilt.pos_err /\ vel_err = Unbuilt.vel_err
    /\ pos = Unbuilt.pos /\ vel = Unbuilt.vel /\ eff = Unbuilt.eff
    /\ imp_eff = Unbuilt.imp_eff
    /\ pos_ref_filter = Unbuilt.pos_ref_filter
    /\ vel_ref_filter = Unbuilt.vel_ref_filter
    /\ eff_ref_filter = Unbuilt.eff_ref_filter
    /\ art_kps = Unbuilt.art_kps /\ art_kds = Unbuilt.art_kds
    /\ calls = Unbuilt.calls
    /\ last = [op |-> "", args |-> NoArgs, exc |-> "", success |-> <<>>,
               check |-> NoCheck, selector |-> NoSelector, prev |-> "", applies |-> 0]
    /\ nops = 0
    /\ view = NoView

\* before CustomTask is constructed
TaskInit ==
    /\ NoneBuilt
    /\ task = NoTask
    /\ world \in {World(k) : k \in 0 .. MaxSnapshots}

\* CustomTask(name, integration_dt, robot_names, ...)
NewTask(a) ==
    /\ ~task.built
    /\ task' = CustomTaskInit(a)
    /\ UNCHANGED <<cntrl_vars, last, nops, view, setup_vars, filter_vars, world>>

\* _init_robots_state(), from post_initialization_steps
InitRobotsState ==
    /\ task.built /\ task.exc = ""
    /\ ~task.state_initialized
    /\ task' = InitRobotsStateOp(task, Snapshot(world.k, Len(task.robot_names)))
    /\ UNCHANGED <<cntrl_vars, last, nops, view, setup_vars, filter_vars, world>>

TaskNext ==
    \/ \E a \in TaskArgs : NewTask(a)
    \/ InitRobotsState

TaskSpec == TaskInit /\ [][TaskNext]_vars

\* ------------------------------------------------- the state synchronizer
\* a task of one or two robots after _init_robots_state
SyncInit ==
    /\ NoneBuilt
    /\ world = World(0)
    /\ \E n \in 1 .. 2 :
          task = InitRobotsStateOp(
                     CustomTaskInit([robot_names |-> RobotNames(n),
                                     robot_pkg_names |-> NoList, fix_base |-> NoList,
                                     self_collide |-> NoList, merge_fixed |-> NoList,
                                     spawning_radius |-> 1]),
                     Snapshot(0, n))

DtArgs == {NoDt} \cup {Dt(v) : v \in 1 .. MaxDt}

\* a physics step: the robots move
Step(k) ==
    /\ k # world.k
    /\ world' = World(k)
    /\ UNCHANGED <<cntrl_vars, last, nops, view, setup_vars, filter_vars, task>>

\* _get_robots_state(dt, reset)
GetRobotsState(dt, reset) ==
    /\ task.k < MaxTaskOps
    /\ task' = [GetRobotsStateOp(task, Snapshot(world.k, Len(task.robot_names)), dt, reset)
                   EXCEPT !.k = task.k + 1, !.before = task.last]
    /\ UNCHANGED <<cntrl_vars, last, nops, view, setup_vars, filter_vars, world>>

\* reset(integration_dt)
TaskReset(integration_dt, wheels) ==
    /\ task.k < MaxTaskOps
    /\ task' = [TaskResetOp(task, Snapshot(world.k, Len(task.robot_names)),
                            integration_dt, wheels)
                   EXCEPT !.k = task.k + 1, !.before = task.last]
    /\ UNCHANGED <<cntrl_vars, last, nops, view, setup_vars, filter_vars, world>>

\* synch_default_root_states()
SynchDefaultRootStates ==
    /\ task.k < MaxTaskOps
    /\ task' = [SynchDefaultRootStatesOp(task) EXCEPT !.k = task.k + 1, !.before = task.last]
    /\ UNCHANGED <<cntrl_vars, last, nops, view, setup_vars, filter_vars, world>>

SyncNext ==
    \/ \E k \in 0 .. MaxSnapshots : Step(k)
    \/ \E dt \in DtArgs, reset \in BOOLEAN : GetRobotsState(dt, reset)
    \/ \E integration_dt \in DtArgs, wheels \in BOOLEAN : TaskReset(integration_dt, wheels)
    \/ SynchDefaultRootStates

SyncSpec == SyncInit /\ [][SyncNext]_vars

\* call sequences in which a caller takes one tensor from a read accessor
RefNext ==
    \/ \E a \in SeqUpdateStateInputs : nops < MaxRefOps /\ UpdateState(a)
    \/ \E a \in SeqSetGainsInputs : nops < MaxRefOps /\ SetGains(a)
    \/ \E a \in SeqSetRefsInputs : nops < MaxRefOps /\ SetRefs(a)
    \/ \E filter \in BOOLEAN : nops < MaxRefOps /\ ApplyCmds(filter)
    \/ nops < MaxRefOps /\ Reset
    \/ \E field \in DOMAIN Attrs : Get(field)

RefSpec == Init /\ [][RefNext]_vars

\* ------------------------------------------------------------ properties
Setters == {"update_state", "set_gains", "set_refs"}

\* the argument names of a setter, in the order of its success flags
FlagFields(op) ==
    CASE op = "update_state" -> <<"pos", "vel", "eff">>
      [] op = "set_gains" -> <<"pos_gains", "vel_gains">>
      [] op = "set_refs" -> <<"eff_ref", "pos_ref", "vel_ref">>
      [] OTHER -> <<>>

\* the flag positions of the signals a call supplied
Supplied(op, a) == {n \in DOMAIN FlagFields(op) : ~a[FlagFields(op)[n]].none}

\* a step of the controller (not a stuttering step) made by one of ops
Called(ops) == nops' = nops + 1 /\ last'.op \in ops

GainBuffers == <<pos_gains, vel_gains>>
RefBuffers == <<eff_ref, pos_ref, vel_ref>>
MeasBuffers == <<pos, vel, eff>>

IndexSet(indxs) == {indxs.data[n] : n \in DOMAIN indxs.data}

\* a one-dimensional int64 index tensor of unique indices within 0 .. bound-1
ValidSet(indxs, bound) ==
    /\ ~indxs.none
    /\ Len(indxs.shape) = 1 /\ indxs.dtype = "int64" /\ indxs.dev = Device
    /\ numel(indxs) > 0
    /\ IndexSet(indxs) \subseteq 0 .. (bound - 1)
    /\ Cardinality(IndexSet(indxs)) = numel(indxs)

HasIndexBeyond(indxs, bound) ==
    ~indxs.none /\ \E n \in DOMAIN indxs.data : indxs.data[n] >= bound

HasRepeatedIndex(indxs) ==
    ~indxs.none /\ Cardinality(IndexSet(indxs)) < numel(indxs)

\* one index tensor holds an index >= its bound, the other is omitted or valid
OutOfBoundsCall(a) ==
    \/ /\ HasIndexBeyond(a.robot_indxs, NumRobots)
       /\ a.jnt_indxs.none \/ ValidSet(a.jnt_indxs, NDofs)
    \/ /\ HasIndexBeyond(a.jnt_indxs, NDofs)
       /\ a.robot_indxs.none \/ ValidSet(a.robot_indxs, NumRobots)

\* C1: a set_gains, set_refs or update_state call whose robot or joint index
\* tensor holds an index >= its bound returns a false success flag for every
\* signal it was given and leaves every gain, reference and measurement
\* buffer unchanged, whatever the shape of the signal.
C1_OutOfBoundsRefused ==
    [][ (Called(Setters) /\ OutOfBoundsCall(last'.args))
          => /\ last'.exc = ""
             /\ \A n \in Supplied(last'.op, last'.args) : ~last'.success[n]
             /\ UNCHANGED <<GainBuffers, RefBuffers, MeasBuffers>> ]_vars

\* a whole-buffer position tensor with joint index NDofs + 2: every flag is
\* true and every cell of pos, robot 0's included, is overwritten
C1_WholeBufferOverwritten ==
    /\ last.op = "update_state" /\ last.exc = ""
    /\ last.args.robot_indxs = LastRobot /\ last.args.jnt_indxs = JointOutOfBounds
    /\ last.args.pos = Whole(Unit, Unit)
    /\ last.check = <<"VALID", "INVALID">> /\ last.selector.none
    /\ \A n \in DOMAIN last.success : last.success[n]
    /\ \A c \in Cells : pos[c] # 0

\* C2: _validate_selectors marks an index subset that repeats an index
\* INVALID, _gen_selector then returns no selector, and a signal shaped as
\* the index sets is not written through it.
C2_RepeatedIndexInvalid ==
    [][ (Called(Setters)
         /\ (HasRepeatedIndex(last'.args.robot_indxs) \/ HasRepeatedIndex(last'.args.jnt_indxs)))
          => /\ HasRepeatedIndex(last'.args.robot_indxs) => last'.check[1] = "INVALID"
             /\ HasRepeatedIndex(last'.args.jnt_indxs) => last'.check[2] = "INVALID"
             /\ last'.selector.none
             /\ (\A n \in Supplied(last'.op, last'.args) :
                    last'.args[FlagFields(last'.op)[n]].shape # FullShape)
                  => UNCHANGED <<GainBuffers, RefBuffers, MeasBuffers>> ]_vars

\* joint indices [1, 1] pass as VALID, a selector is built and the signal is
\* written through it
C2_RepeatedIndexAccepted ==
    /\ last.op \in Setters /\ last.exc = ""
    /\ last.args.jnt_indxs = RepeatedJoint
    /\ last.check = <<"VALID", "VALID">> /\ ~last.selector.none
    /\ \A n \in DOMAIN last.success : last.success[n]

\* C3: update_state, set_gains and set_refs never raise: every call returns
\* its list of success flags, whatever the signals and index tensors.
C3_SettersNeverRaise ==
    last.op \in Setters => last.exc = ""

\* an empty joint index tensor makes set_refs raise
C3_EmptyIndexRaises ==
    /\ last.op = "set_refs" /\ last.args.jnt_indxs = EmptyIdx
    /\ last.exc = "RuntimeError"

\* the buffer each setter argument is written to
Buffers ==
    [pos |-> pos, vel |-> vel, eff |-> eff,
     eff_ref |-> eff_ref, pos_ref |-> pos_ref, vel_ref |-> vel_ref,
     pos_gains |-> pos_gains, vel_gains |-> vel_gains]

\* the rows and columns a selector addresses; no selector addresses all
RowsOf(selector) == IF selector.none THEN AllRobots ELSE selector.rows
ColsOf(selector) == IF selector.none THEN AllJoints ELSE selector.cols

\* a two-dimensional signal of the selector's shape on the controller's device
Matches(signal, selector) ==
    /\ signal.shape = <<Len(RowsOf(selector)), Len(ColsOf(selector))>>
    /\ signal.dev = Device

\* the selector positions that address cell c
Positions(selector, c) ==
    {q \in (1 .. Len(RowsOf(selector))) \X (1 .. Len(ColsOf(selector))) :
        RowsOf(selector)[q[1]] = c[1] /\ ColsOf(selector)[q[2]] = c[2]}

\* b1 is b0 with signal[i][k] written to cell (rows[i], cols[k]) of the
\* selector and every other cell kept
WrittenThrough(b0, b1, signal, selector) ==
    \A c \in Cells :
        IF Positions(selector, c) = {}
        THEN b1[c] = b0[c]
        ELSE \E q \in Positions(selector, c) :
                b1[c] = signal.data[(q[1] - 1) * signal.shape[2] + q[2]]

\* C4: in update_state and set_refs validation is per field: a supplied
\* tensor whose shape or device does not match the resolved selector gets a
\* false flag and leaves its buffer unmodified, while every supplied tensor
\* that matches is written and keeps a true flag.
C4_PerFieldValidation ==
    [][ (Called({"update_state", "set_refs"}) /\ "RAISE" \notin {last'.check[1], last'.check[2]})
          => /\ last'.exc = ""
             /\ \A n \in Supplied(last'.op, last'.args) :
                   LET field == FlagFields(last'.op)[n]
                       signal == last'.args[field]
                   IN IF Matches(signal, last'.selector)
                      THEN /\ last'.success[n]
                           /\ WrittenThrough(Buffers[field], Buffers'[field], signal, last'.selector)
                      ELSE /\ ~last'.success[n]
                           /\ Buffers'[field] = Buffers[field] ]_vars

\* update_state with a matching pos, a one-dimensional vel and a matching
\* eff: pos is written, the call raises, eff is never written and no flag is
\* returned
C4_OneDimensionalFieldRaises ==
    /\ last.op = "update_state" /\ last.exc = "IndexError"
    /\ Matches(last.args.pos, last.selector) /\ Matches(last.args.eff, last.selector)
    /\ Len(last.args.vel.shape) = 1
    /\ pos # Zeros /\ eff = Zeros

\* the robots and joints a call's index tensors scope it to
ScopeOf(a) ==
    (IF a.robot_indxs.none THEN Robots ELSE IndexSet(a.robot_indxs))
        \X (IF a.jnt_indxs.none THEN Joints ELSE IndexSet(a.jnt_indxs))

ValidScope(a) ==
    /\ a.robot_indxs.none \/ ValidSet(a.robot_indxs, NumRobots)
    /\ a.jnt_indxs.none \/ ValidSet(a.jnt_indxs, NDofs)

\* C5: a set_refs call scoped to valid index sets (R, J) changes no cell of
\* pos_ref, vel_ref and eff_ref outside R x J, and the apply_cmds that follows
\* changes no reference cell at all: the references outside R x J are after
\* apply_cmds what they were before set_refs.
C5_NoBleedThrough ==
    [][ /\ (Called({"set_refs"}) /\ ValidScope(last'.args))
           => \A c \in Cells \ ScopeOf(last'.args) :
                 /\ pos_ref'[c] = pos_ref[c]
                 /\ vel_ref'[c] = vel_ref[c]
                 /\ eff_ref'[c] = eff_ref[c]
        /\ Called({"apply_cmds"}) => UNCHANGED RefBuffers ]_vars

\* a scoped set_refs wrote inside its scope only and apply_cmds followed
C5_Witness ==
    /\ last.op = "apply_cmds"
    /\ \A c \in Cells :
          eff_ref[c] # 0 <=> c \in IndexSet(LastRobot) \X IndexSet(OuterJoints)

\* C6: a successful set_gains(pos_gains=S, robot_indxs=R, jnt_indxs=J) with
\* valid R and J writes S[i][k] into position-gain cell (R[i], J[k]) and
\* leaves the other cells unchanged; an omitted R is all robots in order, an
\* omitted J all joints in order.
C6_ScopedGainWrite ==
    [][ (/\ Called({"set_gains"})
         /\ ValidScope(last'.args)
         /\ ~last'.args.pos_gains.none
         /\ last'.exc = ""
         /\ last'.success[1] /\ last'.success[3])
          => LET R == IF last'.args.robot_indxs.none THEN AllRobots
                      ELSE last'.args.robot_indxs.data
                 J == IF last'.args.jnt_indxs.none THEN AllJoints
                      ELSE last'.args.jnt_indxs.data
                 S == last'.args.pos_gains
             IN /\ \A i \in DOMAIN R, k \in DOMAIN J :
                      pos_gains'[<<R[i], J[k]>>] = S.data[(i - 1) * Len(J) + k]
                /\ \A c \in Cells \ ScopeOf(last'.args) : pos_gains'[c] = pos_gains[c] ]_vars

\* R = [1], J = [0, 2], S = [[5, 7]] on a buffer of 300: row 1 is
\* [5, 300, 7] and the other rows stay at 300
C6_Witness ==
    /\ last.op = "set_gains" /\ last.exc = ""
    /\ last.args.robot_indxs = Idx(<<1>>) /\ last.args.jnt_indxs = Idx(<<0, 2>>)
    /\ last.args.pos_gains.data = <<5, 7>>
    /\ pos_gains[<<1, 0>>] = 5 /\ pos_gains[<<1, 1>>] = 300 /\ pos_gains[<<1, 2>>] = 7
    /\ \A c \in Cells : c[1] # 1 => pos_gains[c] = 300

\* the positions in calls of the set_gains calls that carry keyword kw
GainPushes(log, kw) ==
    {n \in DOMAIN log : log[n].fn = "set_gains" /\ kw \in DOMAIN log[n].args}

\* C7: not in override mode, a set_gains call that assigns a gain field
\* pushes the updated gain buffer to the articulation within the call, and
\* pushes nothing for a field that fails validation or is not supplied; in
\* override mode set_gains never calls the articulation.
C7_GainPush ==
    [][ Called({"set_gains"})
          => IF override_art_controller
             THEN calls' = <<>>
             ELSE /\ \A n \in DOMAIN calls' : calls'[n].fn = "set_gains"
                  /\ (last'.exc = "" /\ 1 \in Supplied("set_gains", last'.args) /\ last'.success[1])
                       \/ pos_gains' # pos_gains
                       => \E n \in GainPushes(calls', "kps") : calls'[n].args.kps = pos_gains'
                  /\ (last'.exc = "" /\ 2 \in Supplied("set_gains", last'.args) /\ last'.success[2])
                       \/ vel_gains' # vel_gains
                       => \E n \in GainPushes(calls', "kds") : calls'[n].args.kds = vel_gains'
                  /\ (1 \notin Supplied("set_gains", last'.args) \/ ~last'.success[1])
                       => GainPushes(calls', "kps") = {}
                  /\ (2 \notin Supplied("set_gains", last'.args) \/ ~last'.success[2])
                       => GainPushes(calls', "kds") = {} ]_vars

\* both gain fields assigned and pushed, in a call that changed the position
\* gains, after one call whose position gains failed validation
C7_Witness ==
    /\ ~override_art_controller
    /\ last.op = "set_gains" /\ last.exc = ""
    /\ last.success = <<TRUE, TRUE, TRUE>>
    /\ Supplied("set_gains", last.args) = {1, 2}
    /\ Len(calls) = 2
    /\ calls[1].args.kps = pos_gains /\ pos_gains # Full(DefaultPGain)
    /\ calls[2].args.kds = vel_gains

\* C8: in override mode every gain value the controller sends to the
\* articulation's native controller is zero, so the native gains it has set
\* are never non-zero.
C8_OverrideGainsZero ==
    override_art_controller
        => /\ \A n \in DOMAIN calls :
                 calls[n].fn = "set_gains"
                     => \A kw \in DOMAIN calls[n].args : calls[n].args[kw] = Zeros
           /\ art_kps \in {NativeGains, Zeros}
           /\ art_kds \in {NativeGains, Zeros}

\* the first apply_cmds after a set_gains, overriding: the native gains are
\* zeroed while a non-zero impedance effort is applied with the stored gains
C8_Witness ==
    /\ override_art_controller
    /\ last.op = "apply_cmds" /\ last.exc = ""
    /\ pos_gains # Full(DefaultPGain) /\ pos_gains # Zeros
    /\ imp_eff # Zeros
    /\ Len(calls) > 0 /\ calls[1].fn = "set_gains"
    /\ art_kps = Zeros /\ art_kds = Zeros

Commands(log) == {log[n].fn : n \in DOMAIN log}

\* C9: in override mode the controller never calls set_joint_position_targets
\* or set_joint_velocity_targets; not in override mode each apply_cmds issues
\* an effort, a position-target and a velocity-target command.
C9_CommandChannels ==
    /\ override_art_controller
          => Commands(calls) \cap {"set_joint_position_targets", "set_joint_velocity_targets"} = {}
    /\ (~override_art_controller /\ last.op = "apply_cmds")
          => {"set_joint_efforts", "set_joint_position_targets", "set_joint_velocity_targets"}
                \subseteq Commands(calls)

\* a filtered apply_cmds, not overriding, with the references initialized:
\* the position target is sent, the call raises, no effort and no velocity
\* target is sent
C9_FilteredCallStops ==
    /\ ~override_art_controller /\ filter_available
    /\ last.op = "apply_cmds" /\ last.args.filter /\ last.exc = "AttributeError"
    /\ Commands(calls) = {"set_joint_position_targets"}

\* eff_ref + pos_gain * (pos_ref - pos) + vel_gain * (vel_ref - vel) per cell
EffortLaw ==
    [c \in Cells |-> eff_ref[c] + pos_gains[c] * (pos_ref[c] - pos[c])
                                 + vel_gains[c] * (vel_ref[c] - vel[c])]

\* C10: in override mode without filtering, the effort apply_cmds leaves
\* commanded is eff_ref + pos_gain*(pos_ref - pos) + vel_gain*(vel_ref - vel)
\* on the buffers the earlier calls left; it is eff_ref when both gains are
\* zero and pos_gain*pos_err + vel_gain*vel_err when eff_ref is zero.  (A
\* call that first initializes the references sends eff_ref before it.)
C10_EffortLaw ==
    [][ (/\ Called({"apply_cmds"})
         /\ override_art_controller
         /\ ~(last'.args.filter /\ filter_available))
          => /\ last'.exc = ""
             /\ Len(calls') > 0
             /\ calls'[Len(calls')].fn = "set_joint_efforts"
             /\ calls'[Len(calls')].args.value = EffortLaw
             /\ imp_eff' = EffortLaw
             /\ (pos_gains = Zeros /\ vel_gains = Zeros)
                   => calls'[Len(calls')].args.value = eff_ref
             /\ eff_ref = Zeros
                   => calls'[Len(calls')].args.value
                        = [c \in Cells |-> pos_gains[c] * pos_err'[c] + vel_gains[c] * vel_err'[c]]
             /\ \A n \in 1 .. (Len(calls') - 1) :
                   calls'[n].fn = "set_joint_efforts"
                       => ~refs_initialized /\ calls'[n].args.value = eff_ref ]_vars

\* an unfiltered override apply_cmds on non-zero measurements, references and
\* gains, where every term of the law contributes
C10_Witness ==
    /\ override_art_controller
    /\ last.op = "apply_cmds" /\ ~last.args.filter /\ last.exc = ""
    /\ \A c \in Cells :
          /\ pos[c] # 0 /\ vel[c] # 0
          /\ pos_ref[c] # 0 /\ vel_ref[c] # 0 /\ eff_ref[c] # 0
          /\ pos_err[c] # 0 /\ vel_err[c] # 0
    /\ imp_eff # eff_ref
    /\ calls[Len(calls)].args.value = imp_eff

\* the filter outputs a filtered apply_cmds is to use: each filter advanced
\* once with the current reference buffer
FilteredRefs ==
    [pos |-> FilterGet(FilterUpdate(pos_ref_filter, pos_ref)),
     vel |-> FilterGet(FilterUpdate(vel_ref_filter, vel_ref)),
     eff |-> FilterGet(FilterUpdate(eff_ref_filter, eff_ref))]

\* C11: with a filter bank, apply_cmds(filter=True) completes without error,
\* advances each of the three reference filters exactly once with the
\* current pos_ref, vel_ref and eff_ref, and issues its command from the
\* three filter outputs: the targets and the effort when not overriding, the
\* impedance effort when overriding.
C11_FilteredApply ==
    [][ (Called({"apply_cmds"}) /\ last'.args.filter /\ filter_available)
          => /\ last'.exc = ""
             /\ pos_ref_filter' = FilterUpdate(pos_ref_filter, pos_ref)
             /\ vel_ref_filter' = FilterUpdate(vel_ref_filter, vel_ref)
             /\ eff_ref_filter' = FilterUpdate(eff_ref_filter, eff_ref)
             /\ Len(calls') > 0
             /\ IF override_art_controller
                THEN /\ calls'[Len(calls')].fn = "set_joint_efforts"
                     /\ calls'[Len(calls')].args.value =
                          [c \in Cells |->
                              FilteredRefs.eff[c]
                                + pos_gains[c] * (FilteredRefs.pos[c] - pos[c])
                                + vel_gains[c] * (FilteredRefs.vel[c] - vel[c])]
                ELSE /\ \E n \in DOMAIN calls' :
                          /\ calls'[n].fn = "set_joint_position_targets"
                          /\ calls'[n].args.value = FilteredRefs.pos
                     /\ \E n \in DOMAIN calls' :
                          /\ calls'[n].fn = "set_joint_velocity_targets"
                          /\ calls'[n].args.value = FilteredRefs.vel
                     /\ calls'[Len(calls')].fn = "set_joint_efforts"
                     /\ calls'[Len(calls')].args.value = FilteredRefs.eff ]_vars

\* a filtered apply_cmds, overriding, on non-zero references: the three
\* filters are advanced, pos_err is computed from the position filter, the
\* call raises and nothing is sent to the articulation
C11_FilteredOverrideRaises ==
    /\ override_art_controller /\ filter_available
    /\ last.op = "apply_cmds" /\ last.args.filter /\ last.exc = "AttributeError"
    /\ pos_ref # Zeros /\ FilterGet(pos_ref_filter) # Zeros
    /\ pos_err = Sub(FilterGet(pos_ref_filter), pos)
    /\ calls = <<>>

\* C12: in every apply_cmds call, overriding or not, filtered or not, a
\* device synchronization barrier occurs before the first command is issued
\* to the articulation (and so after the buffers the commands carry are
\* computed).
C12_BarrierBeforeCommand ==
    [][ Called({"apply_cmds"})
          => \E b \in DOMAIN calls' :
                /\ calls'[b].fn = "cuda_synchronize"
                /\ \A n \in DOMAIN calls' :
                      calls'[n].fn \in {"set_joint_efforts", "set_joint_position_targets",
                                        "set_joint_velocity_targets"}
                          => b < n ]_vars

\* an unfiltered apply_cmds, not overriding, that returns: the three
\* commands are issued and no barrier occurs in the call
C12_NoBarrier ==
    /\ ~override_art_controller
    /\ last.op = "apply_cmds" /\ ~last.args.filter /\ last.exc = ""
    /\ Commands(calls) = {"set_joint_efforts", "set_joint_position_targets",
                          "set_joint_velocity_targets"}

\* the set_gains calls in a call's log
Pushes(log) == {n \in DOMAIN log : log[n].fn = "set_gains"}

CommandFns == {"set_joint_efforts", "set_joint_position_targets", "set_joint_velocity_targets"}

\* C13: after any apply_cmds both gains_initialized and refs_initialized are
\* true; the first apply_cmds after construction or after a reset pushes
\* gains to the articulation exactly once (the stored gain buffers when not
\* overriding, zeros when overriding) before any command, and the later
\* apply_cmds calls push no gains.
C13_LazyInitialization ==
    [][ Called({"apply_cmds"})
          => /\ gains_initialized' /\ refs_initialized'
             /\ IF last'.applies = 1
                THEN /\ Cardinality(Pushes(calls')) = 1
                     /\ \A n \in Pushes(calls') :
                          /\ calls'[n].args =
                               IF override_art_controller
                               THEN [kps |-> Zeros, kds |-> Zeros]
                               ELSE [kps |-> pos_gains, kds |-> vel_gains]
                          /\ \A m \in DOMAIN calls' : calls'[m].fn \in CommandFns => n < m
                ELSE Pushes(calls') = {} ]_vars

\* the first apply_cmds after the construction of a controller built with
\* init_on_creation: it returns having pushed no gains
C13_FirstApplyPushesNothing ==
    /\ init_on_creation
    /\ last.op = "apply_cmds" /\ last.exc = "" /\ last.applies = 1 /\ nops = 1
    /\ Pushes(calls) = {}
    /\ Commands(calls) # {}

FilterStates == <<pos_ref_filter, vel_ref_filter, eff_ref_filter>>

\* C14: right after reset() returns, whatever the calls before it and the
\* construction options, the gain buffers hold the default gains, the
\* reference, measurement, error and impedance-effort buffers are zero, the
\* filter states are zero and gains_initialized and refs_initialized are
\* false.
C14_ResetState ==
    last.op = "reset"
        => /\ pos_gains = Full(DefaultPGain) /\ vel_gains = Full(DefaultVGain)
           /\ eff_ref = Zeros /\ pos_ref = Zeros /\ vel_ref = Zeros
           /\ pos = Zeros /\ vel = Zeros /\ eff = Zeros
           /\ pos_err = Zeros /\ vel_err = Zeros /\ imp_eff = Zeros
           /\ \A n \in DOMAIN FilterStates : FilterStates[n] = FirstOrderFilter
           /\ ~gains_initialized /\ ~refs_initialized

\* a reset() of a controller built with init_on_creation, after a setter:
\* both flags are true and the reset sent gains and commands
C14_ResetInitializes ==
    /\ init_on_creation
    /\ last.op = "reset" /\ last.prev \in Setters
    /\ gains_initialized /\ refs_initialized
    /\ Pushes(calls) # {} /\ Commands(calls) \cap CommandFns # {}

\* C15: reset() is idempotent on the buffers: a reset() made right after a
\* reset() leaves the gain, reference, measurement, error, impedance-effort
\* and filter buffers as the first one left them.
C15_ResetIdempotent ==
    [][ (last.op = "reset" /\ Called({"reset"}))
          => UNCHANGED <<GainBuffers, RefBuffers, MeasBuffers,
                         pos_err, vel_err, imp_eff, FilterStates>> ]_vars

\* two resets in a row, after two earlier calls
C15_Witness ==
    /\ last.op = "reset" /\ last.prev = "reset" /\ nops = MaxSeqOps

\* what reading through the tensor taken from the accessor yields
ViewRead == IF view.live THEN Attrs[view.field] ELSE view.data

\* C16: a tensor obtained from a read accessor is live: after any later
\* set_gains, set_refs, update_state, apply_cmds and reset calls, reading
\* through it yields the controller's current content of that buffer.
C16_LiveReference ==
    ~view.none => ViewRead = Attrs[view.field]

\* a tensor taken from pos_gains() before a reset() still reads the default
\* gains after a later set_gains changed the controller's position gains
C16_StaleAfterReset ==
    /\ ~view.none /\ view.field = "pos_gains" /\ ~view.live
    /\ last.op = "set_gains" /\ last.exc = ""
    /\ ViewRead = Full(DefaultPGain)
    /\ \A c \in Cells : pos_gains[c] # DefaultPGain

\* C17: constructing OmniJntImpCntrl or OmniRobotHomer on an articulation
\* whose initialized flag is false raises at once: the constructor has read
\* no articulation data (count, num_dof, dof_names), allocated no buffer and
\* sent no gain and no command.
C17_UninitializedArticulationRaises ==
    ~articulation.initialized
        => /\ \A cls \in DOMAIN ctor :
                 ctor[cls].done
                     => /\ ctor[cls].exc # ""
                        /\ ctor[cls].log = <<Ev("read", "initialized")>>
           /\ calls = <<>>
           /\ art_kps = NativeGains /\ art_kds = NativeGains

\* both constructors ran on an uninitialized articulation and raised
C17_Witness ==
    /\ ~articulation.initialized
    /\ ctor.OmniJntImpCntrl.done /\ ctor.OmniJntImpCntrl.exc = "Exception"
    /\ ctor.OmniRobotHomer.done /\ ctor.OmniRobotHomer.exc = "Exception"
    /\ pos_gains = None /\ homer.homing = None

\* the joints (columns) whose name contains the pattern
MatchingJoints(names, name_pattern) ==
    {j \in Joints : Contains(name_pattern, names[j + 1])}

\* C18: get_jnt_idxs_matching(pattern) returns the column indices of the
\* joints whose name contains pattern as a substring, each once and in
\* strictly increasing order, and an empty index set when no name matches.
C18_MatchingIndices ==
    ret.op = "get_jnt_idxs_matching"
        => LET idxs == ret.value.data
               M == MatchingJoints(articulation.dof_names, ret.args)
           IN /\ ret.value.dtype = "int64" /\ ret.value.shape = <<Len(idxs)>>
              /\ {idxs[n] : n \in DOMAIN idxs} = M
              /\ Len(idxs) = Cardinality(M)
              /\ \A n, m \in DOMAIN idxs : n < m => idxs[n] < idxs[m]
              /\ M = {} => idxs = <<>>

\* pattern "a" on the joints [b, ba, ab] matches columns 1 and 2 and not
\* only the name that starts with it
C18_Witness ==
    /\ articulation.dof_names[1] = <<"b">>
    /\ articulation.dof_names[2] = <<"b", "a">>
    /\ ret.op = "get_jnt_idxs_matching" /\ ret.args = <<"a">>
    /\ ret.value.data = <<1, 2>>

\* the value the document gives joint name: that of its last element
DocValue(doc, name) ==
    doc[CHOOSE n \in DOMAIN doc :
          doc[n].name = name /\ \A m \in (n + 1) .. Len(doc) : doc[m].name # name].value

\* the homing buffer of a document with the joints the articulation does
\* not have left out: the document's value in the columns of the joints it
\* names, zero in the others
HomingOf(doc, names) ==
    [c \in Cells |->
        IF \E n \in DOMAIN doc : doc[n].name = names[c[2] + 1]
        THEN DocValue(doc, names[c[2] + 1])
        ELSE 0]

\* C20: when the homing document names a joint the articulation does not
\* have, the construction of OmniRobotHomer completes without raising and
\* the homing value of every joint of the articulation is what it would be
\* had that joint not been in the document.
C20_UnknownJointSkipped ==
    (/\ articulation.initialized
     /\ ctor.OmniRobotHomer.done
     /\ homer.well_formed
     /\ \E n \in DOMAIN homer.srdf_content :
            \A j \in DOMAIN articulation.dof_names :
                homer.srdf_content[n].name # articulation.dof_names[j])
        => /\ ctor.OmniRobotHomer.exc = ""
           /\ homer.homing = HomingOf(homer.srdf_content, articulation.dof_names)

\* the document names the unknown joint z and then joint a, which the
\* articulation has: the constructor raises and the column of a stays zero
C20_UnknownJointRaises ==
    /\ articulation.initialized
    /\ homer.well_formed
    /\ ctor.OmniRobotHomer.done /\ ctor.OmniRobotHomer.exc = "AttributeError"
    /\ Len(homer.srdf_content) = 2
    /\ homer.srdf_content[1].name = UnknownJoint
    /\ homer.srdf_content[2].name = <<"a">>
    /\ <<"a">> \in DOMAIN homer.joint_idx_map
    /\ homer.homing = Zeros

\* C19: every FirstOrderFilter.update gives, per cell,
\* y_k = c1 * y_{k-1} + c2 * (ref_k + ref_{k-1}), where y_{k-1} and ref_{k-1}
\* are the output and the reference of the previous call (zero after
\* construction or reset()) and ref_k is the supplied reference, or the
\* previous one when none is supplied; c1 + 2 * c2 = 1; reset() zeroes the
\* output, the previous output, the reference and the previous reference.
C19_FilterRecurrence ==
    [][/\ flt.c_km1 + 2 * flt.c_ref = flt.c_den
       /\ <<flt'.c_km1, flt'.c_ref, flt'.c_den>> = <<flt.c_km1, flt.c_ref, flt.c_den>>
       /\ ret'.op = "update" =>
             /\ ret'.value.data = flt'.yk
             /\ \A c \in Cells :
                   LET refk == IF ret'.args.none THEN flt.refk[c] ELSE ret'.args.data[c]
                   IN /\ flt'.refk[c] = refk
                      /\ flt.c_den * flt'.yk[c] =
                            flt.c_km1 * flt.yk[c] + flt.c_ref * (refk + flt.refk[c])
       /\ ret'.op = "reset" =>
             /\ flt'.yk = Zeros /\ flt'.ykm1 = Zeros
             /\ flt'.refk = Zeros /\ flt'.refkm1 = Zeros]_vars

\* the last of MaxFltOps calls is an update without a reference: the stored
\* reference is not zero, the output is neither zero nor the reference yet,
\* and it differs between cells
C19_Witness ==
    /\ flt_k = MaxFltOps
    /\ ret.op = "update" /\ ret.args.none
    /\ flt.refk # Zeros
    /\ flt.yk # flt.refk
    /\ flt.yk # Zeros
    /\ \E c \in Cells : flt.yk[c] # flt.yk[<<1, 1>>]

\* C21: after the construction of OmniRobotHomer, every cell [r, c] of the
\* homing buffer holds the value the document's home pose gives to the joint
\* named at column c when the document names it, and 0 when it does not.
C21_HomingBuffer ==
    (/\ ctor.OmniRobotHomer.done
     /\ ctor.OmniRobotHomer.exc = "")
        => /\ homer.homing # None
           /\ \A c \in Cells :
                 LET name == articulation.dof_names[c[2] + 1]
                     doc == homer.srdf_content
                 IN homer.homing[c] =
                        IF \E n \in DOMAIN doc : doc[n].name = name
                        THEN DocValue(doc, name)
                        ELSE 0

\* a homer built from a document that names two of the three joints, with
\* different values: two columns hold them in both rows, the third is zero
C21_Witness ==
    /\ ctor.OmniRobotHomer.done /\ ctor.OmniRobotHomer.exc = ""
    /\ Len(homer.srdf_content) = 2
    /\ homer.srdf_content[1].name # homer.srdf_content[2].name
    /\ \E j \in Joints :
          /\ \A n \in 1 .. 2 : homer.srdf_content[n].name # articulation.dof_names[j + 1]
          /\ \A r \in Robots : homer.homing[<<r, j>>] = 0
    /\ \E j, k \in Joints :
          /\ j # k
          /\ \A r \in Robots :
                /\ homer.homing[<<r, j>>] = homer.srdf_content[1].value
                /\ homer.homing[<<r, k>>] = homer.srdf_content[2].value

\* C22: constructing OmniRobotHomer on a document that is not well-formed
\* raises the document parse error, and no homer is produced.
C22_MalformedRaisesParseError ==
    (/\ articulation.initialized
     /\ ctor.OmniRobotHomer.done
     /\ ~homer.well_formed)
        => ctor.OmniRobotHomer.exc = "ParseError"

\* a malformed document: the parse error was caught by the constructor's
\* handler and the exception that left the constructor is an AttributeError
C22_MalformedRaisesAttributeError ==
    /\ articulation.initialized
    /\ ctor.OmniRobotHomer.done
    /\ ~homer.well_formed
    /\ \E n \in DOMAIN ctor.OmniRobotHomer.log :
          ctor.OmniRobotHomer.log[n] = Ev("except", "ParseError")
    /\ ctor.OmniRobotHomer.exc = "AttributeError"

\* the state the articulation views return at present for the task's robots
Read == Snapshot(world.k, Len(task.robot_names))

\* C23: in differentiated mode _get_robots_state(dt, reset = True) sets the
\* root linear velocity, the root angular velocity and the joint velocity to
\* zero whatever the previous-state buffers hold and refreshes the
\* previous-state buffers from the state it read, and the
\* _get_robots_state(dt, reset = False) that follows yields linear and joint
\* velocity (x_t - x_{t-1}) / dt, x_{t-1} being the state read on the reset
\* tick.
C23_ResetTickThenDifference ==
    [][task'.k = task.k + 1 /\ task'.last.op = "_get_robots_state" /\ ~task'.last.dt.none
        => LET n == Len(task.robot_names)
               dt == task'.last.dt.value
           IN /\ task'.last.reset =>
                    /\ \A i \in 1 .. n :
                          /\ task'.root_v[i] = Zero3
                          /\ task'.root_omega[i].value = Zero3
                          /\ task'.jnts_v[i] = ZeroJnts
                    /\ task'.root_p_prev = Read.root_p
                    /\ task'.root_q_prev = Read.root_q
                    /\ task'.jnts_q_prev = Read.jnts_q
              /\ (/\ ~task'.last.reset
                  /\ task.last.op = "_get_robots_state"
                  /\ task.last.reset /\ ~task.last.dt.none) =>
                    \A i \in 1 .. n :
                       /\ \A e \in Envs, x \in 1 .. 3 :
                             dt * task'.root_v[i][e][x] =
                                 Read.root_p[i][e][x] - task.root_p[i][e][x]
                       /\ \A c \in Envs \X Joints :
                             dt * task'.jnts_v[i][c] = Read.jnts_q[i][c] - task.jnts_q[i][c]
      ]_vars

\* a differentiated tick right after a reset tick that found previous-state
\* buffers different from the state it read: the robots moved in between
\* and the velocities are not zero
C23_Witness ==
    /\ task.last.op = "_get_robots_state" /\ ~task.last.dt.none /\ ~task.last.reset
    /\ task.before.op = "_get_robots_state" /\ ~task.before.dt.none /\ task.before.reset
    /\ task.k = 2
    /\ task.root_p_prev = Read.root_p
    /\ world.k = 2
    /\ \A i \in 1 .. Len(task.robot_names) :
          /\ task.root_v[i] # Zero3
          /\ task.jnts_v[i] # ZeroJnts
          /\ \A e \in Envs :
                task.root_v[i][e][1] * task.last.dt.value =
                    World(2).root_p[i][e][1] - World(1).root_p[i][e][1]

\* the root position read for robot i in environment e plus the offset of
\* angle k twelfths of a turn on the circle of the task's radius
PlacedAt(i, e, k) ==
    [x \in 1 .. 3 |-> SurdAdd(SurdOfInt(Read.root_p[i][e][x]),
                               OffsetAt(task.spawning_radius, k)[e][x])]

\* C24 as stated: the default root position of robot kind i (0-based, of n)
\* in every environment is the root position read when the robot state is
\* initialized plus (radius * cos(a_i), radius * sin(a_i), 0) with
\* a_i = i * 2 * pi / n, robot 0 being at angle 0.
C24_OffsetFromAngleZero ==
    task.state_initialized =>
        LET n == Len(task.robot_names)
        IN \A i \in 0 .. (n - 1), e \in Envs :
              task.root_p_default[i + 1][e] = PlacedAt(i + 1, e, (12 \div n) * i)

\* C24, amended: the default root position of robot kind i (0-based, of n)
\* in every environment is the root position read when the robot state is
\* initialized plus (radius * cos(a_i), radius * sin(a_i), 0) with
\* a_i = (i + 1) * 2 * pi / n: robot 0 is at angle 2 * pi / n and the last
\* robot at angle 0.
C24_OffsetFromFirstAngle ==
    task.state_initialized =>
        LET n == Len(task.robot_names)
        IN \A i \in 0 .. (n - 1), e \in Envs :
              task.root_p_default[i + 1][e] = PlacedAt(i + 1, e, (12 \div n) * (i + 1))

\* three robots on a circle of radius 2: robot 0 is at a third of a turn,
\* off the x axis, and away from where angle 0 would put it
C24_Witness ==
    /\ task.state_initialized
    /\ Len(task.robot_names) = 3
    /\ task.spawning_radius = 2
    /\ \A e \in Envs :
          /\ task.root_p_default[1][e][2].s # 0
          /\ task.root_p_default[1][e] # PlacedAt(1, e, 0)
          /\ task.root_p_default[3][e] = PlacedAt(3, e, 0)

\* an option list is supplied with a length that is not robot_names'
Mismatch(l) == ~l.none /\ Len(l.list) # Len(task.args.robot_names)
AnyMismatch ==
    \/ Mismatch(task.args.robot_pkg_names) \/ Mismatch(task.args.fix_base)
    \/ Mismatch(task.args.self_collide) \/ Mismatch(task.args.merge_fixed)

\* C25: the construction of CustomTask raises a dimension-mismatch error
\* whenever a supplied per-robot option list (robot_pkg_names, fix_base,
\* self_collide, merge_fixed) has a length different from robot_names, and
\* raises no dimension error when every supplied list has the length of
\* robot_names, robot_pkg_names being supplied or not.
C25_DimensionMismatchRaises ==
    task.built =>
        IF AnyMismatch
        THEN task.exc = "Exception"
        ELSE task.exc # "Exception"

\* robot_pkg_names is not supplied and fix_base is, one element short: the
\* constructor raises the TypeError of len(None), not a dimension mismatch
C25_TypeErrorWithoutPkgNames ==
    /\ task.built
    /\ task.args.robot_pkg_names.none
    /\ ~task.args.fix_base.none
    /\ Len(task.args.fix_base.list) + 1 = Len(task.args.robot_names)
    /\ task.exc = "TypeError"

\* C28: after CustomTask.reset(), with or without an integration_dt, the
\* velocities the task holds are zero and the previous-state buffers equal
\* the state read during the reset, so that the first differentiated
\* _get_robots_state(dt, reset = False) after a reset computes the velocity
\* from the state captured at the reset.
C28_ResetZeroesAndRefreshes ==
    [][/\ task'.last.op = "reset" =>
             /\ \A i \in 1 .. Len(task.robot_names) :
                   /\ task'.root_v[i] = Zero3
                   /\ task'.root_omega[i].value = Zero3
                   /\ task'.jnts_v[i] = ZeroJnts
             /\ task'.root_p_prev = task'.root_p
             /\ task'.root_q_prev = task'.root_q
             /\ task'.jnts_q_prev = task'.jnts_q
       /\ (/\ task'.k = task.k + 1
           /\ task'.last.op = "_get_robots_state"
           /\ ~task'.last.dt.none /\ ~task'.last.reset
           /\ task.last.op = "reset") =>
             \A i \in 1 .. Len(task.robot_names) :
                /\ \A e \in Envs, x \in 1 .. 3 :
                      task'.last.dt.value * task'.root_v[i][e][x] =
                          Read.root_p[i][e][x] - task.root_p[i][e][x]
                /\ \A c \in Envs \X Joints :
                      task'.last.dt.value * task'.jnts_v[i][c] =
                          Read.jnts_q[i][c] - task.jnts_q[i][c]
      ]_vars

\* reset() without integration_dt after the robots moved: the velocities are
\* the simulation's, not zero, and the previous-state buffers still hold
\* the state from before the reset
C28_ResetWithoutDt ==
    /\ task.last.op = "reset" /\ task.last.dt.none
    /\ \A i \in 1 .. Len(task.robot_names) :
          /\ task.root_v[i] # Zero3
          /\ task.jnts_v[i] # ZeroJnts
          /\ task.root_p_prev[i] # task.root_p[i]
          /\ task.jnts_q_prev[i] # task.jnts_q[i]

\* C26: set_gains validates vel_gains on its own shape: every call that
\* supplies vel_gains, with or without pos_gains, returns without raising;
\* the velocity-gain flag is false exactly when the shape or device of
\* vel_gains does not match the resolved selector, and then the velocity-gain
\* buffer is unchanged, while a matching vel_gains is written to the
\* selected cells.
C26_VelGainsOwnValidation ==
    [][ (/\ Called({"set_gains"})
         /\ ~last'.args.vel_gains.none
         /\ "RAISE" \notin {last'.check[1], last'.check[2]})
          => /\ last'.exc = ""
             /\ IF Matches(last'.args.vel_gains, last'.selector)
                THEN /\ last'.success[2]
                     /\ WrittenThrough(vel_gains, vel_gains', last'.args.vel_gains,
                                       last'.selector)
                ELSE /\ ~last'.success[2]
                     /\ vel_gains' = vel_gains ]_vars

\* set_gains with a vel_gains that matches the selector and no pos_gains:
\* the call raises on the validation of pos_gains, which is None, and the
\* velocity gains stay at their default
C26_VelGainsAloneRaises ==
    /\ last.op = "set_gains"
    /\ last.args.pos_gains.none /\ ~last.args.vel_gains.none
    /\ Matches(last.args.vel_gains, last.selector)
    /\ last.exc = "AttributeError"
    /\ vel_gains = Full(DefaultVGain)

\* the values the calls of log hand to the articulation function fn
Commanded(log, fn) == {log[n].args.value : n \in {m \in DOMAIN log : log[m].fn = fn}}

\* C27: set_refs modifies the reference buffers only: it never calls the
\* articulation and leaves the gain buffers, the measurement buffers and
\* both initialization flags unchanged; a reference it wrote reaches the
\* articulation at the next apply_cmds.
C27_SetRefsWritesReferencesOnly ==
    [][ /\ Called({"set_refs"})
           => /\ calls' = <<>>
              /\ UNCHANGED <<GainBuffers, MeasBuffers, gains_initialized, refs_initialized,
                             art_kps, art_kds, pos_err, vel_err, imp_eff>>
        /\ (Called({"apply_cmds"}) /\ last'.exc = "" /\ ~override_art_controller)
           => /\ Commanded(calls', "set_joint_efforts") = {eff_ref}
              /\ Commanded(calls', "set_joint_position_targets") = {pos_ref}
              /\ Commanded(calls', "set_joint_velocity_targets") = {vel_ref} ]_vars

\* an apply_cmds right after a set_refs that wrote a position reference: the
\* reference is what the articulation is given as position target
C27_Witness ==
    /\ last.op = "apply_cmds" /\ last.prev = "set_refs" /\ last.exc = ""
    /\ ~override_art_controller
    /\ pos_ref # Zeros
    /\ Commanded(calls, "set_joint_position_targets") = {pos_ref}

\* C29: in every reachable controller state refs_initialized implies
\* gains_initialized: the controller is never in a state where the initial
\* references were pushed to the articulation and the gains were not.
C29_RefsImplyGains ==
    refs_initialized => gains_initialized

\* a controller not initialized on creation, reset and then commanded: the
\* apply_cmds set both flags, the gains first
C29_Witness ==
    /\ ~init_on_creation
    /\ last.op = "apply_cmds" /\ last.prev = "reset"
    /\ gains_initialized /\ refs_initialized
    /\ Len(calls) > 1 /\ calls[1].fn = "set_gains"

\* C30: not in override mode, from the return of an apply_cmds call until the
\* next reset, after every set_gains call, successful or not, the position
\* and velocity gains last pushed to the articulation's native controller
\* equal the controller's position and velocity gain buffers cell for cell.
C30_PushedGainsAreCurrent ==
    (/\ ~override_art_controller
     /\ last.op = "set_gains"
     /\ last.applies > 0)
        => /\ art_kps = pos_gains
           /\ art_kds = vel_gains

\* a set_gains after an apply_cmds changed both gain buffers, and the
\* articulation holds the new gains
C30_Witness ==
    /\ ~override_art_controller
    /\ last.op = "set_gains" /\ last.applies > 0 /\ last.exc = ""
    /\ pos_gains # Full(DefaultPGain) /\ vel_gains # Full(DefaultVGain)
    /\ art_kps = pos_gains /\ art_kds = vel_gains
====
